---- MODULE Spec2Model ----
(***************************************************************************)
(* zkenc: witness key encapsulation (WKEM) over a QAP.                     *)
(*                                                                         *)
(* The model covers zkenc-core (encap, decap, the R1CS -> QAP evaluation), *)
(* the R1CS-backed circuit of zkenc-cli and the combined-ciphertext frame  *)
(* written by encrypt_command and read by decrypt_command.                 *)
(*                                                                         *)
(* The pairing group is modelled in the exponent: a group element is its   *)
(* discrete logarithm over a small prime field that, like the scalar field *)
(* of BN254, has a multiplicative subgroup of two-power order.             *)
(***************************************************************************)
EXTENDS Integers, Sequences, FiniteSets, TLC

(***************************************************************************)
(* Option and Result values                                                *)
(***************************************************************************)
None == <<>>
Some(v) == <<v>>
IsSome(o) == Len(o) = 1
Unwrap(o) == o[1]

Min(a, b) == IF a < b THEN a ELSE b

(***************************************************************************)
(* Scalar field E::ScalarField                                             *)
(***************************************************************************)
P == 13
F == 0..(P - 1)

FAdd(a, b) == (a + b) % P
FSub(a, b) == ((a - b) + P) % P
FMul(a, b) == (a * b) % P

RECURSIVE FPow(_, _)
FPow(a, e) == IF e = 0 THEN 1 ELSE FMul(a, FPow(a, e - 1))

\* Field::inverse: None for zero
FInverse(a) == IF a = 0 THEN None ELSE Some(FPow(a, P - 2))

RECURSIVE Pow2(_)
Pow2(k) == IF k = 0 THEN 1 ELSE 2 * Pow2(k - 1)

\* FftField::TWO_ADICITY: the largest k with 2^k dividing P - 1
TWO_ADICITY == CHOOSE k \in 0..P : /\ (P - 1) % Pow2(k) = 0
                                   /\ (P - 1) % Pow2(k + 1) # 0

\* FftField::TWO_ADIC_ROOT_OF_UNITY: an element of order 2^TWO_ADICITY
TWO_ADIC_ROOT_OF_UNITY ==
    CHOOSE g \in 1..(P - 1) :
        /\ FPow(g, Pow2(TWO_ADICITY)) = 1
        /\ \A k \in 0..(TWO_ADICITY - 1) : FPow(g, Pow2(k)) # 1
        /\ \A h \in 1..(g - 1) :
              ~ /\ FPow(h, Pow2(TWO_ADICITY)) = 1
                /\ \A k \in 0..(TWO_ADICITY - 1) : FPow(h, Pow2(k)) # 1

(***************************************************************************)
(* Groups G1, G2, GT and the pairing, in the exponent                      *)
(***************************************************************************)
G1(s) == [grp |-> "G1", dlog |-> s]
G2(s) == [grp |-> "G2", dlog |-> s]
GT(s) == [grp |-> "GT", dlog |-> s]

g1_generator == G1(1)
g2_generator == G2(1)

\* generator * scalar, point + point
ScalarMul(pt, s) == [pt EXCEPT !.dlog = FMul(@, s)]
GroupAdd(p, q) == [p EXCEPT !.dlog = FAdd(@, q.dlog)]
GroupSub(p, q) == [p EXCEPT !.dlog = FSub(@, q.dlog)]

\* E::pairing
Pairing(p, q) == GT(FMul(p.dlog, q.dlog))

\* E::G1::msm(bases, scalars)
RECURSIVE MsmFrom(_, _, _)
MsmFrom(bases, scalars, k) ==
    IF k > Len(bases) THEN G1(0)
    ELSE GroupAdd(ScalarMul(bases[k], scalars[k]), MsmFrom(bases, scalars, k + 1))

Msm(bases, scalars) ==
    IF Len(bases) # Len(scalars) THEN None ELSE Some(MsmFrom(bases, scalars, 1))

(***************************************************************************)
(* Byte strings                                                            *)
(***************************************************************************)
RECURSIVE LeValue(_, _)
\* little-endian value of bytes[1..n]
LeValue(bytes, n) ==
    IF n = 0 THEN 0 ELSE bytes[1] + 256 * LeValue(Tail(bytes), n - 1)

\* Fr::from_le_bytes_mod_order
FromLeBytesModOrder(bytes) == LeValue(bytes, Len(bytes)) % P

\* CircomCircuit::bytes_to_fr: copy at most 32 bytes into a zeroed 32-byte
\* array and reduce it modulo the field order
bytes_to_fr(bytes) ==
    LET len == Min(Len(bytes), 32)
        bytes_array == [i \in 1..32 |-> IF i <= len THEN bytes[i] ELSE 0]
    IN  FromLeBytesModOrder(bytes_array)

\* s.serialize_compressed for a target-group element (an Fq12 element of
\* BN254 takes 12 * 32 bytes); the leading bytes carry the element
GT_SIZE == 384
serialize_compressed(s) == [i \in 1..GT_SIZE |-> IF i = 1 THEN s.dlog ELSE 0]

(***************************************************************************)
(* ark_relations::gr1cs::ConstraintSystem, as the repository drives it     *)
(***************************************************************************)
\* Variable::One is Variable::Instance(0)
Instance(i) == <<"I", i>>
Witness(i) == <<"W", i>>
One == Instance(0)

\* ConstraintSystem::new_ref(): wire 0 = ONE preallocated
new_ref ==
    [num_instance_variables |-> 1,
     num_witness_variables  |-> 0,
     instance_assignment    |-> <<1>>,
     witness_assignment     |-> <<>>,
     constraints            |-> <<>>]

\* cs.new_input_variable(|| value.ok_or(AssignmentMissing)): the counter is
\* advanced, then the closure runs; a missing value is an error
new_input_variable(cs, value) ==
    LET counted == [cs EXCEPT !.num_instance_variables = @ + 1]
    IN  IF IsSome(value)
        THEN [cs  |-> [counted EXCEPT !.instance_assignment = Append(@, Unwrap(value))],
              res |-> "Ok"]
        ELSE [cs |-> counted, res |-> "AssignmentMissing"]

\* cs.new_witness_variable(|| value.ok_or(AssignmentMissing))
new_witness_variable(cs, value) ==
    LET counted == [cs EXCEPT !.num_witness_variables = @ + 1]
    IN  IF IsSome(value)
        THEN [cs  |-> [counted EXCEPT !.witness_assignment = Append(@, Unwrap(value))],
              res |-> "Ok"]
        ELSE [cs |-> counted, res |-> "AssignmentMissing"]

\* cs.enforce_constraint(R1CS_PREDICATE_LABEL, [a, b, c])
enforce_constraint(cs, a, b, c) ==
    [cs EXCEPT !.constraints = Append(@, [a |-> a, b |-> b, c |-> c])]

\* column of a variable in the exported matrices
ColumnOf(cs, var) ==
    IF var[1] = "I" THEN var[2] ELSE cs.num_instance_variables + var[2]

\* one linear combination as a matrix row: (coeff, index) pairs
MakeRow(cs, lc) == [k \in 1..Len(lc) |-> <<lc[k][1], ColumnOf(cs, lc[k][2])>>]

\* cs.to_matrices()[R1CS_PREDICATE_LABEL]: the three matrices A, B, C
to_matrices(cs) ==
    <<[j \in 1..Len(cs.constraints) |-> MakeRow(cs, cs.constraints[j].a)],
      [j \in 1..Len(cs.constraints) |-> MakeRow(cs, cs.constraints[j].b)],
      [j \in 1..Len(cs.constraints) |-> MakeRow(cs, cs.constraints[j].c)]>>

\* value of a variable under the assignments held by the system
AssignedValue(cs, var) ==
    IF var[1] = "I" THEN cs.instance_assignment[var[2] + 1]
    ELSE cs.witness_assignment[var[2] + 1]

RECURSIVE EvalLc(_, _, _)
EvalLc(cs, lc, k) ==
    IF k > Len(lc) THEN 0
    ELSE FAdd(FMul(lc[k][1], AssignedValue(cs, lc[k][2])), EvalLc(cs, lc, k + 1))

\* cs.is_satisfied(): every row has <A_j, z> * <B_j, z> = <C_j, z>
is_satisfied(cs) ==
    \A j \in 1..Len(cs.constraints) :
        FMul(EvalLc(cs, cs.constraints[j].a, 1), EvalLc(cs, cs.constraints[j].b, 1))
            = EvalLc(cs, cs.constraints[j].c, 1)

(***************************************************************************)
(* Circuits: the R1CS-backed circuit and a native one                      *)
(*   circuit.r1cs    : n_pub, n_wires, constraints (factors are             *)
(*                     <<wire_id, coeff_bytes>>)                            *)
(*   circuit.witness : wire_id -> Option value                              *)
(*   circuit.native  : TRUE for a circuit that allocates its private wires  *)
(*                     before its instance wires                            *)
(***************************************************************************)
WitnessGet(circuit, wire_id) ==
    IF wire_id \in DOMAIN circuit.witness THEN circuit.witness[wire_id] ELSE None

\* the `variables` map built while allocating: wire_id -> Variable
Variables(circuit, wire_id) ==
    IF wire_id = 0 THEN Some(One)
    ELSE IF wire_id <= circuit.r1cs.n_pub THEN Some(Instance(wire_id))
    ELSE IF wire_id < circuit.r1cs.n_wires
         THEN Some(Witness(wire_id - circuit.r1cs.n_pub - 1))
    ELSE None

RECURSIVE AllocatePublic(_, _, _)
\* for wire_id in 1..=n_public { cs.new_input_variable(..)? }
AllocatePublic(circuit, cs, wire_id) ==
    IF wire_id > circuit.r1cs.n_pub THEN [cs |-> cs, res |-> "Ok"]
    ELSE LET r == new_input_variable(cs, WitnessGet(circuit, wire_id))
         IN  IF r.res # "Ok" THEN r ELSE AllocatePublic(circuit, r.cs, wire_id + 1)

RECURSIVE AllocatePrivate(_, _, _)
\* for wire_id in (n_public + 1)..n_wires { cs.new_witness_variable(..)? }
AllocatePrivate(circuit, cs, wire_id) ==
    IF wire_id >= circuit.r1cs.n_wires THEN [cs |-> cs, res |-> "Ok"]
    ELSE LET r == new_witness_variable(cs, WitnessGet(circuit, wire_id))
         IN  IF r.res # "Ok" THEN r ELSE AllocatePrivate(circuit, r.cs, wire_id + 1)

RECURSIVE build_lc(_, _, _)
\* a_closure / b_closure / c_closure: factors whose wire has no variable
\* are skipped
build_lc(circuit, factors, k) ==
    IF k > Len(factors) THEN <<>>
    ELSE LET var  == Variables(circuit, factors[k][1])
             rest == build_lc(circuit, factors, k + 1)
         IN  IF IsSome(var)
             THEN <<<<bytes_to_fr(factors[k][2]), Unwrap(var)>>>> \o rest
             ELSE rest

RECURSIVE AddConstraints(_, _, _)
\* for constraint in self.r1cs.constraints.iter() { cs.enforce_constraint(..)? }
AddConstraints(circuit, cs, j) ==
    IF j > Len(circuit.r1cs.constraints) THEN cs
    ELSE AddConstraints(circuit,
             enforce_constraint(cs,
                 build_lc(circuit, circuit.r1cs.constraints[j].a, 1),
                 build_lc(circuit, circuit.r1cs.constraints[j].b, 1),
                 build_lc(circuit, circuit.r1cs.constraints[j].c, 1)),
             j + 1)

\* CircomCircuit::generate_constraints (instance wires, private wires,
\* constraints); a native circuit allocates its private wires first
generate_constraints(circuit, cs) ==
    LET first  == IF circuit.native
                  THEN AllocatePrivate(circuit, cs, circuit.r1cs.n_pub + 1)
                  ELSE AllocatePublic(circuit, cs, 1)
        second == IF first.res # "Ok" THEN first
                  ELSE IF circuit.native
                       THEN AllocatePublic(circuit, first.cs, 1)
                       ELSE AllocatePrivate(circuit, first.cs, circuit.r1cs.n_pub + 1)
    IN  IF second.res # "Ok" THEN second
        ELSE [cs |-> AddConstraints(circuit, second.cs, 1), res |-> "Ok"]

(***************************************************************************)
(* R1CS -> QAP (r1cs_to_qap.rs)                                            *)
(***************************************************************************)
num_public_inputs(cs) == cs.num_instance_variables
num_witness_variables(cs) == cs.num_witness_variables
num_variables(cs) == num_public_inputs(cs) + num_witness_variables(cs)
num_constraints(cs) == Len(cs.constraints)

RECURSIVE Log2Ceil(_, _)
Log2Ceil(n, k) == IF Pow2(k) >= n THEN k ELSE Log2Ceil(n, k + 1)

\* GeneralEvaluationDomain::new(num_coeffs): the radix-2 domain of size
\* next_power_of_two(num_coeffs); None when the field has no such subgroup
EvaluationDomainNew(num_coeffs) ==
    LET log_size == Log2Ceil(num_coeffs, 0)
    IN  IF log_size > TWO_ADICITY THEN None
        ELSE Some([size      |-> Pow2(log_size),
                   group_gen |-> FPow(TWO_ADIC_ROOT_OF_UNITY,
                                      Pow2(TWO_ADICITY - log_size))])

\* domain.evaluate_all_lagrange_coefficients(x): L_j(x) for j = 0..size-1
\* (entry j + 1 of the result)
evaluate_all_lagrange_coefficients(domain, x) ==
    LET z_h_at_x == FSub(FPow(x, domain.size), 1)
    IN  [j \in 1..domain.size |->
            LET omega_j == FPow(domain.group_gen, j - 1)
            IN  IF z_h_at_x = 0
                THEN (IF omega_j = x THEN 1 ELSE 0)
                ELSE FMul(FMul(z_h_at_x, omega_j),
                          Unwrap(FInverse(FMul(domain.size % P, FSub(x, omega_j)))))]

RECURSIVE RowEntry(_, _, _, _)
\* sum of the coefficients a row holds for column `index` (index < m)
RowEntry(row, index, m, k) ==
    IF k > Len(row) THEN 0
    ELSE FAdd(IF row[k][2] < m /\ row[k][2] = index THEN row[k][1] ELSE 0,
              RowEntry(row, index, m, k + 1))

RECURSIVE AccumulateColumnShifted(_, _, _, _, _, _)
\* variant: lagrange coefficient j + 1 paired with row j
AccumulateColumnShifted(matrix, lagrange_coeffs, index, m, n_constraints, j) ==
    IF j > Min(n_constraints, Len(lagrange_coeffs) - 1) THEN 0
    ELSE FAdd(FMul(lagrange_coeffs[j + 1], RowEntry(matrix[j], index, m, 1)),
              AccumulateColumnShifted(matrix, lagrange_coeffs, index, m, n_constraints, j + 1))

RECURSIVE AccumulateColumn(_, _, _, _, _, _)
\* result[index] += lagrange_j * coeff over the rows j < n_constraints
AccumulateColumn(matrix, lagrange_coeffs, index, m, n_constraints, j) ==
    IF j > Min(n_constraints, Len(lagrange_coeffs)) THEN 0
    ELSE FAdd(FMul(lagrange_coeffs[j], RowEntry(matrix[j], index, m, 1)),
              AccumulateColumn(matrix, lagrange_coeffs, index, m, n_constraints, j + 1))

\* variant: a domain for max(constraints, instance variables)
QapDomainMax(cs) ==
    EvaluationDomainNew(IF num_constraints(cs) > num_public_inputs(cs)
                        THEN num_constraints(cs) ELSE num_public_inputs(cs))

\* the evaluation domain: domain_size = num_constraints + num_public_inputs
\* (the instance variables, constant included)
QapDomain(cs) ==
    EvaluationDomainNew(num_constraints(cs) + num_public_inputs(cs))

\* evaluate_qap_polynomials_at_x: (u_evals, v_evals, w_evals), each of
\* length m; entry i + 1 belongs to variable i.  All zero when the domain
\* cannot be built.
evaluate_qap_polynomials_at_x(cs, x) ==
    LET m == num_variables(cs)
        matrices == to_matrices(cs)
        domain == QapDomain(cs)
        zeros == [i \in 1..m |-> 0]
    IN  IF ~IsSome(domain)
        THEN [u_evals |-> zeros, v_evals |-> zeros, w_evals |-> zeros]
        ELSE LET lagrange_coeffs ==
                     evaluate_all_lagrange_coefficients(Unwrap(domain), x)
                 n_constraints == num_constraints(cs)
                 Col(matrix, i) ==
                     AccumulateColumn(matrix, lagrange_coeffs, i - 1, m, n_constraints, 1)
             IN  [u_evals |-> [i \in 1..m |-> Col(matrices[1], i)],
                  v_evals |-> [i \in 1..m |-> Col(matrices[2], i)],
                  w_evals |-> [i \in 1..m |-> Col(matrices[3], i)]]

(***************************************************************************)
(* State                                                                   *)
(***************************************************************************)
VARIABLES
    pc,             \* position of the running call
    circuit,        \* encap's circuit argument
    rng,            \* the caller's RNG: the outputs it will give, in order
    cs,             \* the constraint system encap synthesized
    public_inputs,  \* encap: instance_assignment[1..]
    toxic,          \* encap: the sampled alpha, beta, delta, r, x (or None)
    ciphertext,     \* encap: the ciphertext built (or None)
    key,            \* encap: the derived key (or None)
    calls,          \* the encap calls made so far: arguments and outcome
    dcircuit,       \* decap's circuit argument
    dciphertext,    \* decap's ciphertext argument
    dcs,            \* the constraint system decap synthesized
    decap_result,   \* what decap returned (or None)
    written,        \* encrypt_command: the parts it framed (or None)
    combined,       \* the combined-ciphertext file
    frame,          \* decrypt_command: what the frame reader produced
    request,        \* a codec or cipher call: the function and its arguments
    response        \* what that call returned (or None)

encapVars == <<circuit, rng, cs, public_inputs, toxic, ciphertext, key>>
decapVars == <<dcircuit, dciphertext, dcs, decap_result>>
frameVars == <<written, combined, frame>>
ioVars == <<request, response>>
vars == <<pc, encapVars, calls, decapVars, frameVars, ioVars>>

(***************************************************************************)
(* encap (algorithm.rs)                                                    *)
(***************************************************************************)
\* E::ScalarField::rand(rng): the next output of the RNG
Rand(g) == [value |-> Head(g), rng |-> Tail(g)]

\* Steps 1-2: synthesize (an error is only logged) and read the instance
\* assignment without the constant 1
EncapSynthesize ==
    /\ pc = "encap"
    /\ LET synthesis == generate_constraints(circuit, new_ref)
       IN  /\ cs' = synthesis.cs
           /\ public_inputs' = Tail(synthesis.cs.instance_assignment)
    /\ pc' = "encap_sample"
    /\ UNCHANGED <<circuit, rng, toxic, ciphertext, key>>
    /\ UNCHANGED <<calls, decapVars, frameVars, ioVars>>

\* Step 3: alpha, beta, delta, r, x in this order
\* variant: the scalars come from a source of the function's own, the
\* caller's generator is left untouched
EncapSampleOwnSource ==
    /\ pc = "encap_sample"
    /\ \E own \in {<<1, 2, 1, 2, 1>>, <<2, 1, 2, 1, 2>>} :
          LET d1 == Rand(own)
              d2 == Rand(d1.rng)
              d3 == Rand(d2.rng)
              d4 == Rand(d3.rng)
              d5 == Rand(d4.rng)
          IN  toxic' = Some([alpha |-> d1.value, beta |-> d2.value,
                             delta |-> d3.value, r |-> d4.value, x |-> d5.value])
    /\ pc' = "encap_crs"
    /\ UNCHANGED <<circuit, rng, cs, public_inputs, ciphertext, key>>
    /\ UNCHANGED <<calls, decapVars, frameVars, ioVars>>

EncapSample ==
    /\ pc = "encap_sample"
    /\ LET d1 == Rand(rng)
           d2 == Rand(d1.rng)
           d3 == Rand(d2.rng)
           d4 == Rand(d3.rng)
           d5 == Rand(d4.rng)
       IN  /\ toxic' = Some([alpha |-> d1.value, beta |-> d2.value,
                             delta |-> d3.value, r |-> d4.value, x |-> d5.value])
           /\ rng' = d5.rng
    /\ pc' = "encap_crs"
    /\ UNCHANGED <<circuit, cs, public_inputs, ciphertext, key>>
    /\ UNCHANGED <<calls, decapVars, frameVars, ioVars>>

\* the three query vectors for i in 0..m; delta.inverse().expect(..) inside
\* the loop aborts the call when delta = 0
\* variant: the w term of phi carries r once instead of r^2
QueryVectorsLinearR(t, evals, m) ==
    LET delta_inverse == FInverse(t.delta)
        phi(i) == FAdd(FAdd(FMul(FMul(t.r, t.beta), evals.u_evals[i]),
                            FMul(FMul(t.r, t.alpha), evals.v_evals[i])),
                       FMul(t.r, evals.w_evals[i]))
    IN  IF m > 0 /\ ~IsSome(delta_inverse) THEN None
        ELSE Some([r_u_query_g1 |->
                       [i \in 1..m |-> ScalarMul(g1_generator, FMul(t.r, evals.u_evals[i]))],
                   r_v_query_g2 |->
                       [i \in 1..m |-> ScalarMul(g2_generator, FMul(t.r, evals.v_evals[i]))],
                   phi_delta_query_g1 |->
                       [i \in 1..m |->
                           ScalarMul(g1_generator, FMul(phi(i), Unwrap(delta_inverse)))]])

QueryVectors(t, evals, m) ==
    LET delta_inverse == FInverse(t.delta)
        phi(i) == FAdd(FAdd(FMul(FMul(t.r, t.beta), evals.u_evals[i]),
                            FMul(FMul(t.r, t.alpha), evals.v_evals[i])),
                       FMul(FMul(t.r, t.r), evals.w_evals[i]))
    IN  IF m > 0 /\ ~IsSome(delta_inverse) THEN None
        ELSE Some([r_u_query_g1 |->
                       [i \in 1..m |-> ScalarMul(g1_generator, FMul(t.r, evals.u_evals[i]))],
                   r_v_query_g2 |->
                       [i \in 1..m |-> ScalarMul(g2_generator, FMul(t.r, evals.v_evals[i]))],
                   phi_delta_query_g1 |->
                       [i \in 1..m |->
                           ScalarMul(g1_generator, FMul(phi(i), Unwrap(delta_inverse)))]])

\* Step 4: evaluate the QAP at x and build the CRS and the ciphertext
EncapBuildCrs ==
    /\ pc = "encap_crs"
    /\ LET t == Unwrap(toxic)
           evals == evaluate_qap_polynomials_at_x(cs, t.x)
           m == num_variables(cs)
           queries == QueryVectors(t, evals, m)
       IN  IF ~IsSome(queries)
           THEN /\ pc' = "encap_panic"
                /\ UNCHANGED ciphertext
           ELSE /\ pc' = "encap_key"
                /\ ciphertext' =
                     Some([encap_key |->
                              [alpha_g1 |-> ScalarMul(g1_generator, t.alpha),
                               beta_g2  |-> ScalarMul(g2_generator, t.beta),
                               delta_g2 |-> ScalarMul(g2_generator, t.delta),
                               r_u_query_g1 |-> Unwrap(queries).r_u_query_g1,
                               r_v_query_g2 |-> Unwrap(queries).r_v_query_g2,
                               phi_delta_query_g1 |-> Unwrap(queries).phi_delta_query_g1,
                               h_query_g1 |-> <<>>],
                           public_inputs |-> public_inputs])
    /\ UNCHANGED <<circuit, rng, cs, public_inputs, toxic, key>>
    /\ UNCHANGED <<calls, decapVars, frameVars, ioVars>>

RECURSIVE PublicBasesSkipLast(_, _, _)
\* variant: the last public input is left out of the sum
PublicBasesSkipLast(phi_query, inputs, idx) ==
    IF idx + 1 >= Len(inputs) THEN <<>>
    ELSE LET i == idx + 1
             rest == PublicBasesSkipLast(phi_query, inputs, idx + 1)
         IN  IF i < Len(phi_query)
             THEN <<<<phi_query[i + 1], inputs[idx + 1]>>>> \o rest
             ELSE rest

RECURSIVE PublicBases(_, _, _)
\* the (point, scalar) pairs pushed for the public inputs: input idx pairs
\* with query entry i = idx + 1 when i < len
PublicBases(phi_query, inputs, idx) ==
    IF idx >= Len(inputs) THEN <<>>
    ELSE LET i == idx + 1
             rest == PublicBases(phi_query, inputs, idx + 1)
         IN  IF i < Len(phi_query)
             THEN <<<<phi_query[i + 1], inputs[idx + 1]>>>> \o rest
             ELSE rest

\* phi_sum: the MSM over the constant wire (scalar 1) and the public inputs
PhiSum(ct) ==
    LET phi_query == ct.encap_key.phi_delta_query_g1
        constant == IF Len(phi_query) # 0 THEN <<<<phi_query[1], 1>>>> ELSE <<>>
        pairs == constant \o PublicBases(phi_query, ct.public_inputs, 0)
        phi_sum_affine == [k \in 1..Len(pairs) |-> pairs[k][1]]
        scalars == [k \in 1..Len(pairs) |-> pairs[k][2]]
    IN  IF Len(phi_sum_affine) # 0
        THEN Unwrap(Msm(phi_sum_affine, scalars))
        ELSE GroupSub(g1_generator, g1_generator)

\* key_bytes: the first min(32, len) bytes of s_bytes in a zeroed [u8; 32]
KeyBytes(s_bytes) ==
    LET len == Min(32, Len(s_bytes))
    IN  [i \in 1..32 |-> IF i <= len THEN s_bytes[i] ELSE 0]

\* Step 5: s = e(alpha_g1, beta_g2) + e(phi_sum, g2) and the key
DeriveKey(ct) ==
    LET pairing1 == Pairing(ct.encap_key.alpha_g1, ct.encap_key.beta_g2)
        pairing2 == Pairing(PhiSum(ct), g2_generator)
        s == GroupAdd(pairing1, pairing2)
    IN  KeyBytes(serialize_compressed(s))

EncapDeriveKey ==
    /\ pc = "encap_key"
    /\ key' = Some(DeriveKey(Unwrap(ciphertext)))
    /\ pc' = "encap_ok"
    /\ UNCHANGED <<circuit, rng, cs, public_inputs, toxic, ciphertext>>
    /\ UNCHANGED <<calls, decapVars, frameVars, ioVars>>

(***************************************************************************)
(* decap (algorithm.rs)                                                    *)
(***************************************************************************)
Ok(k) == [tag |-> "Ok", error |-> "", key |-> Some(k)]
Err(e) == [tag |-> "Err", error |-> e, key |-> None]
Panic == [tag |-> "Panic", error |-> "", key |-> None]

\* Step 1: synthesize with the witness; an error is returned
DecapSynthesize ==
    /\ pc = "decap"
    /\ LET synthesis == generate_constraints(dcircuit, new_ref)
       IN  /\ dcs' = synthesis.cs
           /\ IF synthesis.res # "Ok"
              THEN /\ decap_result' = Err("SynthesisError")
                   /\ pc' = "decap_returned"
              ELSE /\ pc' = "decap_check"
                   /\ UNCHANGED decap_result
    /\ UNCHANGED <<dcircuit, dciphertext>>
    /\ UNCHANGED <<encapVars, calls, frameVars, ioVars>>

\* if !cs.is_satisfied().unwrap_or(false) { return Err(InvalidWitness) }
\* variant: an unsatisfied system is not turned into an error
DecapCheckIgnored ==
    /\ pc = "decap_check"
    /\ pc' = "decap_recover"
    /\ UNCHANGED decap_result
    /\ UNCHANGED <<dcircuit, dciphertext, dcs>>
    /\ UNCHANGED <<encapVars, calls, frameVars, ioVars>>

DecapCheckSatisfied ==
    /\ pc = "decap_check"
    /\ IF ~is_satisfied(dcs)
       THEN /\ decap_result' = Err("InvalidWitness")
            /\ pc' = "decap_returned"
       ELSE /\ pc' = "decap_recover"
            /\ UNCHANGED decap_result
    /\ UNCHANGED <<dcircuit, dciphertext, dcs>>
    /\ UNCHANGED <<encapVars, calls, frameVars, ioVars>>

\* let _ = ciphertext; todo!("Decap implementation in progress")
DecapRecoverKey ==
    /\ pc = "decap_recover"
    /\ decap_result' = Panic
    /\ pc' = "decap_panic"
    /\ UNCHANGED <<dcircuit, dciphertext, dcs>>
    /\ UNCHANGED <<encapVars, calls, frameVars, ioVars>>

(***************************************************************************)
(* The combined ciphertext: encrypt_command writes it, decrypt_command     *)
(* reads it (commands.rs)                                                  *)
(*   [flag(1)][witnessLen(4)][witnessCT][publicLen(4)?][publicInput?][msg] *)
(***************************************************************************)
\* variant: the length in little-endian order
U32ToLeBytes(n) ==
    <<n % 256, (n \div 256) % 256, (n \div 65536) % 256, (n \div 16777216) % 256>>

\* (len as u32).to_be_bytes()
U32ToBeBytes(n) ==
    <<(n \div 16777216) % 256, (n \div 65536) % 256, (n \div 256) % 256, n % 256>>

\* u32::from_be_bytes([b[offset], .., b[offset + 3]]) as usize
U32FromBeBytes(b, offset) ==
    b[offset + 1] * 16777216 + b[offset + 2] * 65536 + b[offset + 3] * 256 + b[offset + 4]

\* Step 3 of encrypt_command: the combined bytes
WriteCombined(witness_ct_bytes, input_json, include_public_input, encrypted_message) ==
    LET public_input_bytes == IF include_public_input THEN input_json ELSE <<>>
        flag == IF include_public_input THEN 1 ELSE 0
    IN  <<flag>>
          \o U32ToBeBytes(Len(witness_ct_bytes))
          \o witness_ct_bytes
          \o (IF include_public_input
              THEN U32ToBeBytes(Len(public_input_bytes)) \o public_input_bytes
              ELSE <<>>)
          \o encrypted_message

\* the reader's four length checks (offsets are usize, 64 bits wide: the
\* sums below cannot wrap)
TooShort(buf) == Len(buf) < 5
\* variant: the witness length compared without the header offset
WitnessLengthNoOffset(buf, offset, witness_len) == Len(buf) < witness_len
WitnessLengthMismatch(buf, offset, witness_len) == Len(buf) < offset + witness_len
MissingPublicLength(buf, offset) == Len(buf) < offset + 4
PublicLengthMismatch(buf, offset, public_len) == Len(buf) < offset + public_len

\* buf[from..to] lies in the buffer (an index or slice outside it aborts)
InBuffer(buf, from, to) == from <= to /\ to <= Len(buf)
Slice(buf, from, to) == SubSeq(buf, from + 1, to)

FrameErr(msg) ==
    [status |-> "err", error |-> msg, flag |-> 0, witness_ct_bytes |-> <<>>,
     public_input |-> None, encrypted_message |-> <<>>]
FramePanic ==
    [status |-> "panic", error |-> "", flag |-> 0, witness_ct_bytes |-> <<>>,
     public_input |-> None, encrypted_message |-> <<>>]
FrameOk(flag, witness_ct_bytes, public_input, encrypted_message) ==
    [status |-> "ok", error |-> "", flag |-> flag,
     witness_ct_bytes |-> witness_ct_bytes, public_input |-> public_input,
     encrypted_message |-> encrypted_message]

\* the public input part and the encrypted message, read when flag == 1
ReadPublicInput(buf, flag, witness_ct_bytes, offset) ==
    IF MissingPublicLength(buf, offset)
    THEN FrameErr("Invalid ciphertext: missing public input length")
    ELSE IF ~InBuffer(buf, offset, offset + 4) THEN FramePanic
    ELSE LET public_len == U32FromBeBytes(buf, offset)
             start == offset + 4
         IN  IF PublicLengthMismatch(buf, start, public_len)
             THEN FrameErr("Invalid ciphertext: public input length mismatch")
             ELSE IF ~InBuffer(buf, start, start + public_len) THEN FramePanic
             ELSE FrameOk(flag, witness_ct_bytes,
                          Some(Slice(buf, start, start + public_len)),
                          Slice(buf, start + public_len, Len(buf)))

\* Step 1 of decrypt_command: parse the combined ciphertext
ParseCombined(buf) ==
    IF TooShort(buf) THEN FrameErr("Invalid ciphertext: too short")
    ELSE IF ~InBuffer(buf, 0, 5) THEN FramePanic
    ELSE LET flag == buf[1]
             witness_len == U32FromBeBytes(buf, 1)
             offset == 5
         IN  IF WitnessLengthMismatch(buf, offset, witness_len)
             THEN FrameErr("Invalid ciphertext: witness length mismatch")
             ELSE IF ~InBuffer(buf, offset, offset + witness_len) THEN FramePanic
             ELSE LET witness_ct_bytes == Slice(buf, offset, offset + witness_len)
                      after == offset + witness_len
                  IN  IF flag = 1
                      THEN ReadPublicInput(buf, flag, witness_ct_bytes, after)
                      ELSE FrameOk(flag, witness_ct_bytes, None,
                                   Slice(buf, after, Len(buf)))

(***************************************************************************)
(* Symmetric encryption of the message (crypto.rs)                         *)
(***************************************************************************)
IoOk(v) == [tag |-> "Ok", value |-> v, error |-> ""]
IoErr(e) == [tag |-> "Err", value |-> <<>>, error |-> e]
IoPanic == [tag |-> "Panic", value |-> <<>>, error |-> ""]

RECURSIVE ByteSum(_)
ByteSum(bytes) ==
    IF bytes = <<>> THEN 0 ELSE (Head(bytes) + ByteSum(Tail(bytes))) % 256

\* variant: only keys longer than 32 bytes are refused
KeyLengthTooLong(aes_key) == Len(aes_key) > 32
\* key.len() != 32
KeyLengthInvalid(aes_key) == Len(aes_key) # 32

\* variant: the minimum taken one byte too large
GcmDataTooShortStrict(data) == Len(data) < 29
\* data.len() < 28
GcmDataTooShort(data) == Len(data) < 28
\* data.len() < 16
CtrDataTooShort(data) == Len(data) < 16

\* the cipher's keystream byte i and its 16-byte tag, each determined by
\* key, nonce and (the tag) the ciphertext body
Keystream(aes_key, nonce, i) == (ByteSum(aes_key) + 3 * ByteSum(nonce) + 7 * i + 1) % 256
GcmTag(aes_key, nonce, body) ==
    [k \in 1..16 |->
        (ByteSum(aes_key) + ByteSum(nonce) + 5 * ByteSum(body) + Len(body) + k) % 256]

\* cipher.apply_keystream, forward and back
ApplyKeystream(aes_key, nonce, text) ==
    [i \in 1..Len(text) |-> (text[i] + Keystream(aes_key, nonce, i)) % 256]
RemoveKeystream(aes_key, nonce, text) ==
    [i \in 1..Len(text) |-> (text[i] + 256 - Keystream(aes_key, nonce, i)) % 256]

\* cipher.encrypt(&nonce, plaintext): ciphertext followed by the tag
AeadEncrypt(aes_key, nonce, plaintext) ==
    LET body == ApplyKeystream(aes_key, nonce, plaintext)
    IN  body \o GcmTag(aes_key, nonce, body)

\* cipher.decrypt(nonce, ciphertext): the plaintext, or None when the tag
\* does not authenticate
AeadDecrypt(aes_key, nonce, ct_bytes) ==
    IF Len(ct_bytes) < 16 THEN None
    ELSE LET body == SubSeq(ct_bytes, 1, Len(ct_bytes) - 16)
             tag == SubSeq(ct_bytes, Len(ct_bytes) - 15, Len(ct_bytes))
         IN  IF tag # GcmTag(aes_key, nonce, body) THEN None
             ELSE Some(RemoveKeystream(aes_key, nonce, body))

encrypt_gcm(aes_key, plaintext, nonce) ==
    IF KeyLengthInvalid(aes_key) THEN IoErr("Key must be 32 bytes (256 bits)")
    ELSE IF Len(aes_key) # 32 THEN IoErr("Failed to create AES-GCM cipher")
    ELSE IoOk(nonce \o AeadEncrypt(aes_key, nonce, plaintext))

decrypt_gcm(aes_key, data) ==
    IF KeyLengthInvalid(aes_key) THEN IoErr("Key must be 32 bytes (256 bits)")
    ELSE IF GcmDataTooShort(data)
    THEN IoErr("Data too short, need at least 28 bytes (12 nonce + 16 tag)")
    ELSE IF Len(aes_key) # 32 THEN IoErr("Failed to create AES-GCM cipher")
    ELSE IF Len(data) < 12 THEN IoPanic
    ELSE LET nonce == SubSeq(data, 1, 12)
             ct_bytes == SubSeq(data, 13, Len(data))
             plaintext == AeadDecrypt(aes_key, nonce, ct_bytes)
         IN  IF IsSome(plaintext) THEN IoOk(Unwrap(plaintext))
             ELSE IoErr("Decryption failed (authentication failed or corrupted data)")

encrypt_ctr(aes_key, plaintext, iv) ==
    IF KeyLengthInvalid(aes_key) THEN IoErr("Key must be 32 bytes (256 bits)")
    ELSE IF Len(aes_key) # 32 THEN IoPanic
    ELSE IoOk(iv \o ApplyKeystream(aes_key, iv, plaintext))

decrypt_ctr(aes_key, data) ==
    IF KeyLengthInvalid(aes_key) THEN IoErr("Key must be 32 bytes (256 bits)")
    ELSE IF CtrDataTooShort(data) THEN IoErr("Data too short, need at least 16 bytes for IV")
    ELSE IF Len(aes_key) # 32 \/ Len(data) < 16 THEN IoPanic
    ELSE LET iv == SubSeq(data, 1, 16)
             ct_bytes == SubSeq(data, 17, Len(data))
         IN  IoOk(RemoveKeystream(aes_key, iv, ct_bytes))

(***************************************************************************)
(* The wtns container: WitnessFile::from_file and to_field_elements        *)
(* (zkenc-cli witness.rs), parse_witness (zkenc-js lib.rs)                 *)
(***************************************************************************)
\* b"wtns"
WTNS_MAGIC == <<119, 116, 110, 115>>

\* a loop that never ends (its vector grows until memory runs out)
IoHang == [tag |-> "Hang", value |-> <<>>, error |-> ""]

\* u32::from_le_bytes / u64::from_le_bytes of the bytes after offset pos
ReadLe(data, pos, width) == LeValue(SubSeq(data, pos + 1, pos + width), width)

\* reader.read_exact of n bytes at pos succeeds
CanRead(data, pos, n) == pos + n <= Len(data)
EofErr == IoErr("failed to fill whole buffer")

RECURSIVE WtnsReadSections(_, _, _, _)
\* the section loop of from_file; acc holds prime, n_witness, witness_data.
\* The header section is read field by field (its declared size is not
\* used), the data section is section_size bytes, any other is skipped.
WtnsReadSections(data, pos, left, acc) ==
    IF left = 0 THEN acc
    ELSE IF ~CanRead(data, pos, 12) THEN [acc EXCEPT !.eof = TRUE]
    ELSE LET section_type == ReadLe(data, pos, 4)
             section_size == ReadLe(data, pos + 4, 8)
             body == pos + 12
         IN  IF section_type = 1
             THEN IF ~CanRead(data, body, 4) THEN [acc EXCEPT !.eof = TRUE]
                  ELSE LET field_size == ReadLe(data, body, 4)
                       IN  IF ~CanRead(data, body + 4, field_size + 4)
                           THEN [acc EXCEPT !.eof = TRUE]
                           ELSE WtnsReadSections(data, body + 4 + field_size + 4, left - 1,
                                    [acc EXCEPT
                                       !.prime = SubSeq(data, body + 5, body + 4 + field_size),
                                       !.n_witness = ReadLe(data, body + 4 + field_size, 4)])
             ELSE IF ~CanRead(data, body, section_size) THEN [acc EXCEPT !.eof = TRUE]
             ELSE WtnsReadSections(data, body + section_size, left - 1,
                      IF section_type = 2
                      THEN [acc EXCEPT !.witness_data =
                                           SubSeq(data, body + 1, body + section_size)]
                      ELSE acc)

\* witness_data.len() != expected_size
WitnessSizeMismatch(witness_data, expected_size) == Len(witness_data) # expected_size

\* WitnessFile::from_file, on the bytes of the file
WitnessFile_from_file(data) ==
    IF ~CanRead(data, 0, 4) THEN EofErr
    ELSE IF SubSeq(data, 1, 4) # WTNS_MAGIC THEN IoErr("Invalid wtns magic bytes")
    ELSE IF ~CanRead(data, 4, 4) THEN EofErr
    ELSE IF ReadLe(data, 4, 4) # 2 THEN IoErr("Unsupported wtns version")
    ELSE IF ~CanRead(data, 8, 4) THEN EofErr
    ELSE LET n_sections == ReadLe(data, 8, 4)
             s == WtnsReadSections(data, 12, n_sections,
                      [eof |-> FALSE, prime |-> <<>>, n_witness |-> 0,
                       witness_data |-> <<>>])
         IN  IF s.eof THEN EofErr
             ELSE IF s.prime = <<>> THEN IoErr("Missing header section in wtns file")
             ELSE IF s.witness_data = <<>>
             THEN IoErr("Missing witness data section in wtns file")
             ELSE LET field_size == Len(s.prime)
                      expected_size == s.n_witness * field_size
                  IN  IF WitnessSizeMismatch(s.witness_data, expected_size)
                      THEN IoErr("Witness data size mismatch")
                      ELSE IF Len(s.witness_data) < expected_size THEN IoPanic
                      ELSE IoOk([prime |-> s.prime, n_witness |-> s.n_witness,
                                 assignments |->
                                    [i \in 1..s.n_witness |->
                                        SubSeq(s.witness_data, (i - 1) * field_size + 1,
                                               i * field_size)]])

\* serialized size of a field element (Fr: 32 bytes)
FR_SERIALIZED_SIZE == 32

\* F::deserialize_uncompressed: exactly FR_SERIALIZED_SIZE little-endian
\* bytes, refused when the integer is not below the modulus
deserialize_uncompressed(bytes) ==
    IF Len(bytes) < FR_SERIALIZED_SIZE THEN None
    ELSE LET v == LeValue(bytes, FR_SERIALIZED_SIZE)
         IN  IF v >= P THEN None ELSE Some(v)

\* WitnessFile::to_field_elements
to_field_elements(wf) ==
    IF \E i \in 1..wf.n_witness : ~IsSome(deserialize_uncompressed(wf.assignments[i]))
    THEN IoErr("Failed to deserialize wire as field element")
    ELSE IoOk([i \in 1..wf.n_witness |->
                  Unwrap(deserialize_uncompressed(wf.assignments[i]))])

\* the witness as the commands load it: from_file, then to_field_elements
LoadWitness(data) ==
    LET wf == WitnessFile_from_file(data)
    IN  IF wf.tag # "Ok" THEN wf ELSE to_field_elements(wf.value)

RECURSIVE JsWitnessValues(_, _, _, _, _)
\* while pos + n8 <= section_end { push(from_le_bytes_mod_order(..)) }
JsWitnessValues(data, pos, n8, section_end, acc) ==
    IF ~(pos + n8 <= section_end) THEN IoOk(acc)
    ELSE IF n8 = 0 THEN (IF pos > Len(data) THEN IoPanic ELSE IoHang)
    ELSE IF pos + Min(n8, 32) > Len(data) THEN IoPanic
    ELSE JsWitnessValues(data, pos + n8, n8, section_end,
             Append(acc, bytes_to_fr(SubSeq(data, pos + 1, pos + Min(n8, 32)))))

RECURSIVE JsWitnessSections(_, _, _, _, _)
\* the section loop of parse_witness (data is indexed without a check)
JsWitnessSections(data, pos, left, n8, acc) ==
    IF left = 0 THEN IoOk(acc)
    ELSE IF pos + 12 > Len(data) THEN IoPanic
    ELSE LET section_type == ReadLe(data, pos, 4)
             section_len == ReadLe(data, pos + 4, 8)
             body == pos + 12
             section_end == body + section_len
         IN  IF section_type = 1
             THEN IF body + 4 > Len(data) THEN IoPanic
                  ELSE JsWitnessSections(data, section_end, left - 1,
                                         ReadLe(data, body, 4), acc)
             ELSE IF section_type = 2
             THEN LET r == JsWitnessValues(data, body, n8, section_end, acc)
                  IN  IF r.tag # "Ok" THEN r
                      ELSE JsWitnessSections(data, section_end, left - 1, n8, r.value)
             ELSE JsWitnessSections(data, section_end, left - 1, n8, acc)

\* parse_witness (zkenc-js)
parse_witness(data) ==
    IF 4 > Len(data) \/ SubSeq(data, 1, 4) # WTNS_MAGIC
    THEN IoErr("Invalid witness file: wrong magic")
    ELSE IF 8 > Len(data) THEN IoPanic
    ELSE IF ReadLe(data, 4, 4) # 2 THEN IoErr("Unsupported witness version")
    ELSE IF 12 > Len(data) THEN IoPanic
    ELSE JsWitnessSections(data, 12, ReadLe(data, 8, 4), 0, <<>>)

(***************************************************************************)
(* The r1cs container: R1csFile::from_file (zkenc-cli r1cs.rs) and         *)
(* parse_r1cs (zkenc-js lib.rs)                                            *)
(***************************************************************************)
\* b"r1cs"
R1CS_MAGIC == <<114, 49, 99, 115>>

RECURSIVE CollectSections(_, _, _, _)
\* first pass: (type, size, position) of every section, in file order
CollectSections(data, pos, left, acc) ==
    IF left = 0 THEN acc
    ELSE IF ~CanRead(data, pos, 12) THEN [acc EXCEPT !.eof = TRUE]
    ELSE LET section_type == ReadLe(data, pos, 4)
             section_size == ReadLe(data, pos + 4, 8)
             section_pos == pos + 12
         IN  CollectSections(data, section_pos + section_size, left - 1,
                 [acc EXCEPT !.list = Append(@, <<section_type, section_size, section_pos>>)])

\* variant: only the section at the front of the file is looked at
FindSectionAtFront(sections, type) ==
    IF Len(sections) > 0 /\ sections[1][1] = type THEN Some(sections[1]) ELSE None
\* sections.iter().find(|(t, _, _)| *t == type): the first section of the type
FindSection(sections, type) ==
    LET hits == {k \in 1..Len(sections) : sections[k][1] = type}
    IN  IF hits = {} THEN None
        ELSE Some(sections[CHOOSE k \in hits : \A j \in hits : k <= j])

\* parse_header: field_size, prime, n_wires, n_pub_out, n_pub_in, n_prv_in,
\* n_labels (u64), n_constraints; None when the bytes run out
parse_header(data, pos) ==
    IF ~CanRead(data, pos, 4) THEN None
    ELSE LET field_size == ReadLe(data, pos, 4)
             p0 == pos + 4 + field_size
         IN  IF ~CanRead(data, p0, 28) THEN None
             ELSE Some([field_size |-> field_size,
                        prime |-> SubSeq(data, pos + 5, p0),
                        n_wires |-> ReadLe(data, p0, 4),
                        n_pub_out |-> ReadLe(data, p0 + 4, 4),
                        n_pub_in |-> ReadLe(data, p0 + 8, 4),
                        n_prv_in |-> ReadLe(data, p0 + 12, 4),
                        n_labels |-> ReadLe(data, p0 + 16, 8),
                        n_constraints |-> ReadLe(data, p0 + 24, 4)])

RECURSIVE ParseFactors(_, _, _, _, _)
\* the factor loop of parse_lc: (wire_id, value) pairs
ParseFactors(data, pos, left, field_size, acc) ==
    IF left = 0 THEN [eof |-> FALSE, pos |-> pos, factors |-> acc]
    ELSE IF ~CanRead(data, pos, 4 + field_size)
    THEN [eof |-> TRUE, pos |-> pos, factors |-> acc]
    ELSE ParseFactors(data, pos + 4 + field_size, left - 1, field_size,
             Append(acc, <<ReadLe(data, pos, 4),
                           SubSeq(data, pos + 5, pos + 4 + field_size)>>))

\* parse_lc / parse_linear_combination
parse_lc(data, pos, field_size) ==
    IF ~CanRead(data, pos, 4) THEN [eof |-> TRUE, pos |-> pos, factors |-> <<>>]
    ELSE ParseFactors(data, pos + 4, ReadLe(data, pos, 4), field_size, <<>>)

RECURSIVE parse_constraints(_, _, _, _, _)
\* n_constraints times: A, B, C, read one after the other from pos
parse_constraints(data, pos, left, field_size, acc) ==
    IF left = 0 THEN Some(acc)
    ELSE LET a == parse_lc(data, pos, field_size)
             b == parse_lc(data, a.pos, field_size)
             c == parse_lc(data, b.pos, field_size)
         IN  IF a.eof \/ b.eof \/ c.eof THEN None
             ELSE parse_constraints(data, c.pos, left - 1, field_size,
                      Append(acc, [a |-> a.factors, b |-> b.factors, c |-> c.factors]))

\* parse_wire2label: n_wires u64 labels
parse_wire2label(data, pos, n_wires) ==
    IF ~CanRead(data, pos, 8 * n_wires) THEN None
    ELSE Some([i \in 1..n_wires |-> ReadLe(data, pos + 8 * (i - 1), 8)])

\* R1csFile::from_file, on the bytes of the file
R1csFile_from_file(data) ==
    IF ~CanRead(data, 0, 4) THEN EofErr
    ELSE IF SubSeq(data, 1, 4) # R1CS_MAGIC
    THEN IoErr("Invalid R1CS file: wrong magic number")
    ELSE IF ~CanRead(data, 4, 4) THEN EofErr
    ELSE IF ReadLe(data, 4, 4) # 1 THEN IoErr("Unsupported R1CS version")
    ELSE IF ~CanRead(data, 8, 4) THEN EofErr
    ELSE LET sections == CollectSections(data, 12, ReadLe(data, 8, 4),
                                         [eof |-> FALSE, list |-> <<>>])
             header_section == FindSection(sections.list, 1)
             constraints_section == FindSection(sections.list, 2)
             wire2label_section == FindSection(sections.list, 3)
         IN  IF sections.eof THEN EofErr
             ELSE IF ~IsSome(header_section) THEN IoErr("Header section not found")
             ELSE LET header == parse_header(data, Unwrap(header_section)[3])
                  IN  IF ~IsSome(header) THEN EofErr
                      ELSE IF ~IsSome(constraints_section)
                      THEN IoErr("Constraints section not found")
                      ELSE LET h == Unwrap(header)
                               constraints ==
                                   parse_constraints(data, Unwrap(constraints_section)[3],
                                                     h.n_constraints, h.field_size, <<>>)
                               wire2label ==
                                   IF IsSome(wire2label_section)
                                   THEN parse_wire2label(data, Unwrap(wire2label_section)[3],
                                                         h.n_wires)
                                   ELSE Some([i \in 1..h.n_wires |-> i - 1])
                           IN  IF ~IsSome(constraints) \/ ~IsSome(wire2label) THEN EofErr
                               ELSE IoOk([n_wires |-> h.n_wires,
                                          n_pub_out |-> h.n_pub_out,
                                          n_pub_in |-> h.n_pub_in,
                                          n_constraints |-> h.n_constraints,
                                          field_size |-> h.field_size,
                                          constraints |-> Unwrap(constraints)])

\* parse_r1cs (zkenc-js): the same two passes over a byte slice
parse_r1cs(data) ==
    IF 4 > Len(data) \/ SubSeq(data, 1, 4) # R1CS_MAGIC
    THEN IoErr("Invalid R1CS file: wrong magic")
    ELSE IF ~CanRead(data, 4, 4) THEN IoErr("Unexpected end of data")
    ELSE IF ReadLe(data, 4, 4) # 1 THEN IoErr("Unsupported R1CS version")
    ELSE IF ~CanRead(data, 8, 4) THEN IoErr("Unexpected end of data")
    ELSE LET sections == CollectSections(data, 12, ReadLe(data, 8, 4),
                                         [eof |-> FALSE, list |-> <<>>])
             header_section == FindSection(sections.list, 1)
             constraints_section == FindSection(sections.list, 2)
         IN  IF sections.eof THEN IoErr("Unexpected end of data")
             ELSE IF ~IsSome(header_section)
             THEN IoErr("Header section (type 1) not found")
             ELSE LET header == parse_header(data, Unwrap(header_section)[3])
                  IN  IF ~IsSome(header) THEN IoErr("Unexpected end of data")
                      ELSE IF ~IsSome(constraints_section)
                      THEN IoErr("Constraints section (type 2) not found")
                      ELSE LET h == Unwrap(header)
                               constraints ==
                                   parse_constraints(data, Unwrap(constraints_section)[3],
                                                     h.n_constraints, h.field_size, <<>>)
                           IN  IF ~IsSome(constraints)
                               THEN IoErr("Unexpected end of data in LC")
                               ELSE IoOk([n_wires |-> h.n_wires,
                                          n_pub_out |-> h.n_pub_out,
                                          n_pub_in |-> h.n_pub_in,
                                          n_constraints |-> h.n_constraints,
                                          field_size |-> h.field_size,
                                          constraints |-> Unwrap(constraints)])

(***************************************************************************)
(* The input mappers: parse_circuit_inputs (zkenc-cli commands.rs) and     *)
(* flatten_json (zkenc-js lib.rs), on serde_json values                    *)
(***************************************************************************)
\* serde_json::Value
JNumber(i) == [kind |-> "Number", n |-> i, s |-> <<>>, items |-> <<>>]
JString(chars) == [kind |-> "String", n |-> 0, s |-> chars, items |-> <<>>]
JArray(elems) == [kind |-> "Array", n |-> 0, s |-> <<>>, items |-> elems]
JBool(b) == [kind |-> "Bool", n |-> IF b THEN 1 ELSE 0, s |-> <<>>, items |-> <<>>]
JNull == [kind |-> "Null", n |-> 0, s |-> <<>>, items |-> <<>>]
\* an object: its (key, value) members
JObject(members) == [kind |-> "Object", n |-> 0, s |-> <<>>, items |-> members]

DigitChars == <<"0", "1", "2", "3", "4", "5", "6", "7", "8", "9">>
IsDigit(ch) == \E d \in 1..Len(DigitChars) : DigitChars[d] = ch
DigitValue(ch) == (CHOOSE d \in 1..Len(DigitChars) : DigitChars[d] = ch) - 1

RECURSIVE DecimalValue(_)
DecimalValue(chars) ==
    IF chars = <<>> THEN 0
    ELSE 10 * DecimalValue(SubSeq(chars, 1, Len(chars) - 1)) + DigitValue(chars[Len(chars)])

\* s.parse::<u64>(): an optional '+', then one or more digits
ParseU64(chars) ==
    LET digits == IF chars # <<>> /\ chars[1] = "+" THEN Tail(chars) ELSE chars
    IN  IF digits # <<>> /\ \A i \in 1..Len(digits) : IsDigit(digits[i])
        THEN Some(DecimalValue(digits))
        ELSE None

\* Fr::from(u: u64)
FrFromU64(u) == u % P
\* Fr::from(i as u64): the cast maps a negative i to 2^64 + i, and
\* 2^64 = ((2^4)^4)^4
FrFromI64AsU64(i) ==
    IF i >= 0 THEN FrFromU64(i)
    ELSE FSub(FPow(FPow(FPow(2, 4), 4), 4), (0 - i) % P)

\* the Number arm of flatten_value
CliNumber(i) == IoOk(<<FrFromI64AsU64(i)>>)

\* the Number arm of flatten_json
JsNumber(i) ==
    IF i < 0 THEN IoErr("Negative numbers not supported") ELSE IoOk(<<FrFromU64(i)>>)

RECURSIVE flatten_value(_)
RECURSIVE FlattenValueItems(_, _, _)
\* flatten_value of parse_circuit_inputs: the elements one value appends
flatten_value(val) ==
    CASE val.kind = "Number" -> CliNumber(val.n)
      [] val.kind = "String" ->
             IF IsSome(ParseU64(val.s))
             THEN IoOk(<<FrFromU64(Unwrap(ParseU64(val.s)))>>)
             ELSE IoErr("Failed to parse string as number")
      [] val.kind = "Array" -> FlattenValueItems(val.items, 1, <<>>)
      [] OTHER -> IoErr("Unsupported JSON type")
\* for item in arr { flatten_value(item, result)?; }
FlattenValueItems(arr, k, acc) ==
    IF k > Len(arr) THEN IoOk(acc)
    ELSE LET r == flatten_value(arr[k])
         IN  IF r.tag # "Ok" THEN r ELSE FlattenValueItems(arr, k + 1, acc \o r.value)

RECURSIVE LexLess(_, _)
\* the order of str: byte by byte, a proper prefix first
LexLess(a, b) ==
    IF b = <<>> THEN FALSE
    ELSE IF a = <<>> THEN TRUE
    ELSE IF a[1] # b[1] THEN a[1] < b[1]
    ELSE LexLess(Tail(a), Tail(b))

RECURSIVE InsertKey(_, _)
InsertKey(sorted, k) ==
    IF sorted = <<>> THEN <<k>>
    ELSE IF LexLess(k, sorted[1]) THEN <<k>> \o sorted
    ELSE <<sorted[1]>> \o InsertKey(Tail(sorted), k)

\* variant: the keys stay in the order of the text
KeysUnsorted(keys) == keys
RECURSIVE SortKeys(_)
\* keys.sort()
SortKeys(keys) ==
    IF keys = <<>> THEN <<>> ELSE InsertKey(SortKeys(Tail(keys)), keys[1])

\* obj.get(key)
ObjGet(members, k) == (CHOOSE i \in 1..Len(members) : members[i][1] = k)

RECURSIVE FlattenKeys(_, _, _, _)
\* for key in keys { flatten_value(obj.get(key), &mut result)?; }
FlattenKeys(members, keys, k, acc) ==
    IF k > Len(keys) THEN IoOk(acc)
    ELSE LET r == flatten_value(members[ObjGet(members, keys[k])][2])
         IN  IF r.tag # "Ok" THEN r ELSE FlattenKeys(members, keys, k + 1, acc \o r.value)

\* parse_circuit_inputs, on the parsed JSON text
parse_circuit_inputs(value) ==
    IF value.kind # "Object" THEN IoErr("JSON must be an object")
    ELSE LET obj == value.items
             keys == SortKeys([i \in 1..Len(obj) |-> obj[i][1]])
         IN  FlattenKeys(obj, keys, 1, <<>>)

RECURSIVE flatten_json(_)
RECURSIVE FlattenJsonItems(_, _, _, _)
\* flatten_json (zkenc-js); the members of an object are visited in the
\* order of the map, which is the order of their keys
flatten_json(val) ==
    CASE val.kind = "Number" -> JsNumber(val.n)
      [] val.kind = "String" ->
             IF IsSome(ParseU64(val.s))
             THEN IoOk(<<FrFromU64(Unwrap(ParseU64(val.s)))>>)
             ELSE IoErr("Failed to parse string as number")
      [] val.kind = "Array" -> FlattenJsonItems(val.items, <<>>, 1, <<>>)
      [] val.kind = "Object" ->
             FlattenJsonItems(val.items, SortKeys([i \in 1..Len(val.items) |-> val.items[i][1]]),
                              1, <<>>)
      [] OTHER -> IoErr("Unsupported JSON value type")
\* the two loops of flatten_json: over array items (keys empty) or over the
\* members of an object in key order
FlattenJsonItems(elems, keys, k, acc) ==
    IF k > Len(elems) THEN IoOk(acc)
    ELSE LET item == IF keys = <<>> THEN elems[k] ELSE elems[ObjGet(elems, keys[k])][2]
             r == flatten_json(item)
         IN  IF r.tag # "Ok" THEN r ELSE FlattenJsonItems(elems, keys, k + 1, acc \o r.value)

(***************************************************************************)
(* verify_ciphertext (algorithm.rs)                                        *)
(***************************************************************************)
\* variant: the lengths are not compared
PublicInputLengthIgnored(ct, expected_public_inputs) == FALSE
\* ciphertext.public_inputs.len() != expected_public_inputs.len()
PublicInputLengthMismatch(ct, expected_public_inputs) ==
    Len(ct.public_inputs) # Len(expected_public_inputs)

RECURSIVE ZipAllEqual(_, _, _)
\* the loop over public_inputs.iter().zip(expected.iter()): it ends with the
\* shorter of the two
ZipAllEqual(a, b, k) ==
    IF k > Min(Len(a), Len(b)) THEN TRUE
    ELSE IF a[k] # b[k] THEN FALSE
    ELSE ZipAllEqual(a, b, k + 1)

verify_ciphertext(ct, expected_public_inputs) ==
    IF PublicInputLengthMismatch(ct, expected_public_inputs) THEN FALSE
    ELSE ZipAllEqual(ct.public_inputs, expected_public_inputs, 1)

(***************************************************************************)
(* decrypt_command after the frame: load, decap, unwrap, write             *)
(* (commands.rs)                                                           *)
(***************************************************************************)
RECURSIVE ReadElements(_, _, _, _)
ReadElements(data, pos, left, acc) ==
    IF left = 0 THEN [ok |-> TRUE, pos |-> pos, items |-> acc]
    ELSE IF ~CanRead(data, pos, 1) \/ data[pos + 1] >= P
    THEN [ok |-> FALSE, pos |-> pos, items |-> acc]
    ELSE ReadElements(data, pos + 1, left - 1, Append(acc, data[pos + 1]))

\* a Vec: its length (u64), then its elements; an element is one byte here,
\* the discrete logarithm of a point or the value of a scalar, and a byte
\* that is no element is refused
ReadVec(data, pos) ==
    IF ~CanRead(data, pos, 8) THEN [ok |-> FALSE, pos |-> pos, items |-> <<>>]
    ELSE ReadElements(data, pos + 8, ReadLe(data, pos, 8), <<>>)

PointsOf(group, items) == [i \in 1..Len(items) |-> ScalarMul(group, items[i])]

\* Ciphertext::deserialize_compressed: the fields of EncapKey in order, then
\* public_inputs; None when the bytes are no ciphertext
DeserializeCiphertext(data) ==
    LET head == ReadElements(data, 0, 3, <<>>)
        r_u == ReadVec(data, head.pos)
        r_v == ReadVec(data, r_u.pos)
        phi == ReadVec(data, r_v.pos)
        h == ReadVec(data, phi.pos)
        inputs == ReadVec(data, h.pos)
    IN  IF ~(head.ok /\ r_u.ok /\ r_v.ok /\ phi.ok /\ h.ok /\ inputs.ok) THEN None
        ELSE Some([encap_key |->
                      [alpha_g1 |-> ScalarMul(g1_generator, head.items[1]),
                       beta_g2  |-> ScalarMul(g2_generator, head.items[2]),
                       delta_g2 |-> ScalarMul(g2_generator, head.items[3]),
                       r_u_query_g1 |-> PointsOf(g1_generator, r_u.items),
                       r_v_query_g2 |-> PointsOf(g2_generator, r_v.items),
                       phi_delta_query_g1 |-> PointsOf(g1_generator, phi.items),
                       h_query_g1 |-> PointsOf(g1_generator, h.items)],
                   public_inputs |-> inputs.items])

\* Step 2 up to the call of decap: R1csFile::from_file, WitnessFile::from_file,
\* to_field_elements, deserialize_compressed, from_r1cs and set_witness, each
\* leaving the command on failure
LoadCircuitAndWitness(circuit_bytes, witness_bytes, witness_ct_bytes) ==
    LET r1cs == R1csFile_from_file(circuit_bytes)
        witness == LoadWitness(witness_bytes)
        witness_ciphertext == DeserializeCiphertext(witness_ct_bytes)
    IN  IF r1cs.tag # "Ok" THEN [tag |-> r1cs.tag, circuit |-> None, ciphertext |-> None]
        ELSE IF witness.tag # "Ok"
        THEN [tag |-> witness.tag, circuit |-> None, ciphertext |-> None]
        ELSE IF ~IsSome(witness_ciphertext)
        THEN [tag |-> "Err", circuit |-> None, ciphertext |-> None]
        ELSE [tag |-> "Ok",
              circuit |->
                  Some([r1cs |-> [n_pub |-> r1cs.value.n_pub_out + r1cs.value.n_pub_in,
                                  n_wires |-> r1cs.value.n_wires,
                                  constraints |-> r1cs.value.constraints],
                        witness |-> [i \in 0..(Len(witness.value) - 1) |->
                                        Some(witness.value[i + 1])],
                        native |-> FALSE]),
              ciphertext |-> witness_ciphertext]

\* variant: the output file is created before the key is known
CreateThenUnwrap(result, encrypted_message) ==
    IF result.tag # "Ok" THEN [pc |-> "decrypt_failed", output |-> Some(<<>>)]
    ELSE LET plaintext == decrypt_gcm(Unwrap(result.key), encrypted_message)
         IN  IF plaintext.tag = "Ok"
             THEN [pc |-> "decrypt_done", output |-> Some(plaintext.value)]
             ELSE [pc |-> "decrypt_failed", output |-> Some(<<>>)]
\* from decap's result to the end: map_err(..)?, Step 3 decrypt_gcm(..)?, and
\* fs::write(output_path, &plaintext); output is what the command wrote
UnwrapAndWrite(result, encrypted_message) ==
    IF result.tag # "Ok" THEN [pc |-> "decrypt_failed", output |-> None]
    ELSE LET plaintext == decrypt_gcm(Unwrap(result.key), encrypted_message)
         IN  IF plaintext.tag = "Ok"
             THEN [pc |-> "decrypt_done", output |-> Some(plaintext.value)]
             ELSE [pc |-> IF plaintext.tag = "Panic" THEN "decrypt_panic"
                          ELSE "decrypt_failed",
                   output |-> None]

(***************************************************************************)
(* Inputs                                                                  *)
(***************************************************************************)
\* 1 * z1 = z1  (m = 2, n = 1, l = 1)
R1csIdentity ==
    [n_pub |-> 1, n_wires |-> 2,
     constraints |-> << [a |-> << <<0, <<1>>>> >>,
                         b |-> << <<1, <<1>>>> >>,
                         c |-> << <<1, <<1>>>> >>] >>]

\* z2 * z2 = z1  (m = 3, n = 1, l = 1)
R1csQuadratic ==
    [n_pub |-> 1, n_wires |-> 3,
     constraints |-> << [a |-> << <<2, <<1>>>> >>,
                         b |-> << <<2, <<1>>>> >>,
                         c |-> << <<1, <<1>>>> >>] >>]

\* (z3 + 2) * z1 = 3 * z2  (m = 4, n = 1, l = 2); the coefficient 1 of z3 is
\* stored unreduced
R1csProduct ==
    [n_pub |-> 2, n_wires |-> 4,
     constraints |-> << [a |-> << <<3, <<P + 1, 0>>>>, <<0, <<2>>>> >>,
                         b |-> << <<1, <<1>>>> >>,
                         c |-> << <<2, <<3>>>> >>] >>]

\* z3 * z3 = z1 and z3 * z1 = z2  (m = 4, n = 2, l = 2)
R1csChain ==
    [n_pub |-> 2, n_wires |-> 4,
     constraints |-> << [a |-> << <<3, <<1>>>> >>,
                         b |-> << <<3, <<1>>>> >>,
                         c |-> << <<1, <<1>>>> >>],
                       [a |-> << <<3, <<1>>>> >>,
                         b |-> << <<1, <<1>>>> >>,
                         c |-> << <<2, <<1>>>> >>] >>]

R1csFiles == {R1csIdentity, R1csQuadratic, R1csProduct, R1csChain}

\* witness maps: wire 0 = 1, instance wires from pub, private wires from priv
WitnessMaps(r1cs, pub, priv) ==
    {w \in [0..(r1cs.n_wires - 1) -> pub \cup priv \cup {Some(1)}] :
        /\ w[0] = Some(1)
        /\ \A i \in 1..(r1cs.n_wires - 1) :
              IF i <= r1cs.n_pub THEN w[i] \in pub ELSE w[i] \in priv}

\* circuits as encap gets them: instance wires assigned, private wires all
\* unassigned or all assigned
CircuitsOf(r1cs, maps) ==
    {[r1cs |-> r1cs, witness |-> w, native |-> nat] : w \in maps, nat \in BOOLEAN}

EncapCircuits ==
    UNION {CircuitsOf(f, WitnessMaps(f, {Some(1), Some(4)}, {None})
                         \cup WitnessMaps(f, {Some(1), Some(4)}, {Some(2)})) :
           f \in R1csFiles}

\* RNG outputs: zero, one (a domain root), a generic scalar, a primitive
\* fourth root of unity
RngOutputs == {0, 1, 2, TWO_ADIC_ROOT_OF_UNITY}
RngStreams == [1..5 -> RngOutputs]

\* seeded RNGs, as the tests use them
SeededStreams == {<<3, 7, 2, 6, 2>>, <<2, 1, 6, 3, 0>>, <<4, 4, 0, 1, 1>>}

\* circuits as decap gets them: a full assignment
DecapValues == {0, 1, 2, 4}
DecapCircuits(r1cs) ==
    {[r1cs |-> r1cs, witness |-> w, native |-> FALSE] :
        w \in WitnessMaps(r1cs, {Some(v) : v \in DecapValues},
                                {Some(v) : v \in DecapValues})
              \cup WitnessMaps(r1cs, {Some(1)}, {None})}

\* the ciphertext with its public inputs replaced
Substituted(ct, a) == [ct EXCEPT !.public_inputs = a]
Substitutions(ct) ==
    {ct.public_inputs, <<>>}
        \cup [1..Len(ct.public_inputs) -> {1, 4}]

InitCommon ==
    /\ cs = new_ref
    /\ public_inputs = <<>>
    /\ toxic = None
    /\ ciphertext = None
    /\ key = None
    /\ calls = <<>>
    /\ dcs = new_ref
    /\ decap_result = None
    /\ written = None
    /\ combined = <<>>
    /\ frame = None
    /\ request = None
    /\ response = None

(***************************************************************************)
(* SpecEncap: one encap call on every circuit and every RNG output         *)
(***************************************************************************)
InitEncap ==
    /\ pc = "encap"
    /\ circuit \in {c \in EncapCircuits : c.native => c.r1cs = R1csQuadratic}
    /\ rng \in RngStreams
    /\ dcircuit = circuit
    /\ dciphertext = None
    /\ InitCommon

NextEncap ==
    \/ EncapSynthesize
    \/ EncapSample
    \/ EncapBuildCrs
    \/ EncapDeriveKey

SpecEncap == InitEncap /\ [][NextEncap]_vars

(***************************************************************************)
(* Spec: encap by the sender, then decap by a witness holder               *)
(***************************************************************************)
\* the witness holder calls decap on the same R1CS with a full assignment
\* and the ciphertext received, its public inputs possibly substituted
CallDecap ==
    /\ pc = "encap_ok"
    /\ dcircuit' \in DecapCircuits(circuit.r1cs)
    /\ dciphertext' \in {Some(Substituted(Unwrap(ciphertext), a)) :
                            a \in Substitutions(Unwrap(ciphertext))}
    /\ pc' = "decap"
    /\ UNCHANGED <<dcs, decap_result>>
    /\ UNCHANGED <<encapVars, calls, frameVars, ioVars>>

Init ==
    /\ pc = "encap"
    /\ circuit \in {c \in EncapCircuits :
                       /\ ~c.native
                       /\ \A i \in DOMAIN c.witness :
                             i > c.r1cs.n_pub => c.witness[i] = None}
    /\ rng \in SeededStreams
    /\ dcircuit = circuit
    /\ dciphertext = None
    /\ InitCommon

Next ==
    \/ EncapSynthesize
    \/ EncapSample
    \/ EncapBuildCrs
    \/ EncapDeriveKey
    \/ CallDecap
    \/ DecapSynthesize
    \/ DecapCheckSatisfied
    \/ DecapRecoverKey

Spec == Init /\ [][Next]_vars

(***************************************************************************)
(* SpecQap: encap over every evaluation point x of the field               *)
(***************************************************************************)
\* z2 * z2 = z1 and (z2 + z2) * z2 = 2 * z1  (m = 3, n = 2, l = 1); wire 2
\* appears twice in one row
R1csSquares ==
    [n_pub |-> 1, n_wires |-> 3,
     constraints |-> << [a |-> << <<2, <<1>>>> >>,
                         b |-> << <<2, <<1>>>> >>,
                         c |-> << <<1, <<1>>>> >>],
                       [a |-> << <<2, <<1>>>>, <<2, <<1>>>> >>,
                         b |-> << <<2, <<1>>>> >>,
                         c |-> << <<1, <<2>>>> >>] >>]

QapCircuits ==
    EncapCircuits
      \cup CircuitsOf(R1csSquares,
                      WitnessMaps(R1csSquares, {Some(1), Some(4)}, {None})
                        \cup WitnessMaps(R1csSquares, {Some(1), Some(4)}, {Some(2)}))

\* alpha, beta, delta fixed, r and the evaluation point x free
QapStreams == {<<2, 3, 1, r, x>> : r \in {1, 2}, x \in F}

InitQap ==
    /\ pc = "encap"
    /\ circuit \in QapCircuits
    /\ rng \in QapStreams
    /\ dcircuit = circuit
    /\ dciphertext = None
    /\ InitCommon

SpecQap == InitQap /\ [][NextEncap]_vars

(***************************************************************************)
(* SpecCopy: encap on fully assigned circuits, one of them built from an   *)
(* R1CS that names a wire it does not declare                              *)
(***************************************************************************)
\* (z2 + z3) * z2 = z1 with n_wires = 3: wire 3 is not a wire of the circuit
R1csStray ==
    [n_pub |-> 1, n_wires |-> 3,
     constraints |-> << [a |-> << <<2, <<1>>>>, <<3, <<1>>>> >>,
                         b |-> << <<2, <<1>>>> >>,
                         c |-> << <<1, <<1>>>> >>] >>]

CopyCircuits ==
    UNION {{[r1cs |-> f, witness |-> w, native |-> FALSE] :
               w \in WitnessMaps(f, {Some(1), Some(4)}, {Some(0), Some(2)})} :
           f \in {R1csQuadratic, R1csProduct, R1csSquares, R1csStray}}

InitCopy ==
    /\ pc = "encap"
    /\ circuit \in CopyCircuits
    /\ rng \in SeededStreams
    /\ dcircuit = circuit
    /\ dciphertext = None
    /\ InitCommon

SpecCopy == InitCopy /\ [][NextEncap]_vars

(***************************************************************************)
(* SpecFrame: decrypt_command's frame reader on a file encrypt_command     *)
(* wrote, or on any other file                                             *)
(***************************************************************************)
MaxPart == 2
MaxFile == 10

RECURSIVE SeqsUpTo(_, _)
SeqsUpTo(S, n) == IF n = 0 THEN {<<>>} ELSE SeqsUpTo(S, n - 1) \cup [1..n -> S]

Parts == SeqsUpTo({1, 255}, MaxPart)
Files == {<<>>} \cup {<<f>> \o rest : f \in {0, 1, 2}, rest \in SeqsUpTo({0, 1}, MaxFile - 1)}

EncryptWriteCombined ==
    /\ pc = "frame_idle"
    /\ \E witness_ct_bytes \in Parts, input_json \in Parts, encrypted_message \in Parts,
          include_public_input \in BOOLEAN :
          /\ written' = Some([witness_ct_bytes |-> witness_ct_bytes,
                              input_json |-> input_json,
                              include_public_input |-> include_public_input,
                              encrypted_message |-> encrypted_message])
          /\ combined' = WriteCombined(witness_ct_bytes, input_json,
                                       include_public_input, encrypted_message)
    /\ pc' = "decrypt"
    /\ UNCHANGED frame
    /\ UNCHANGED <<encapVars, calls, decapVars, ioVars>>

\* decrypt_command is pointed at a file of any content
ForeignFile ==
    /\ pc = "frame_idle"
    /\ combined' \in Files
    /\ pc' = "decrypt"
    /\ UNCHANGED <<written, frame>>
    /\ UNCHANGED <<encapVars, calls, decapVars, ioVars>>

\* Step 1 of decrypt_command; on success Step 2 (load the circuit and the
\* witness, run decap) follows
DecryptParse ==
    /\ pc = "decrypt"
    /\ frame' = Some(ParseCombined(combined))
    /\ pc' = CASE Unwrap(frame').status = "ok"  -> "decrypt_load"
               [] Unwrap(frame').status = "err" -> "decrypt_failed"
               [] OTHER                         -> "decrypt_panic"
    /\ UNCHANGED <<written, combined>>
    /\ UNCHANGED <<encapVars, calls, decapVars, ioVars>>

InitFrame ==
    /\ pc = "frame_idle"
    /\ circuit = CHOOSE c \in EncapCircuits : TRUE
    /\ rng = <<>>
    /\ dcircuit = circuit
    /\ dciphertext = None
    /\ InitCommon

NextFrame ==
    \/ EncryptWriteCombined
    \/ ForeignFile
    \/ DecryptParse

SpecFrame == InitFrame /\ [][NextFrame]_vars

(***************************************************************************)
(* SpecAead: the four crypto.rs functions on keys and data of any length,  *)
(* and decrypt_gcm on what encrypt_gcm returned                            *)
(***************************************************************************)
MaxMsg == 2

Filled(n, b) == [i \in 1..n |-> b]

AeadKeys == {Filled(n, b) : n \in {0, 16, 31, 32, 33}, b \in {0, 9}}
Messages == SeqsUpTo({0, 255}, MaxMsg)
AeadData == Messages \cup {Filled(n, 1) : n \in {15, 16, 27, 28}}
AeadFunctions == {"encrypt_gcm", "decrypt_gcm", "encrypt_ctr", "decrypt_ctr"}
\* OsRng / thread_rng output
NonceFills == {0, 5}

InitIo ==
    /\ pc = "io_idle"
    /\ circuit = CHOOSE c \in EncapCircuits : TRUE
    /\ rng = <<>>
    /\ dcircuit = circuit
    /\ dciphertext = None
    /\ InitCommon

AeadCall ==
    /\ pc = "io_idle"
    /\ \E f \in AeadFunctions, k \in AeadKeys, d \in AeadData, n \in NonceFills :
          request' = Some([function |-> f, key |-> k, data |-> d,
                           nonce |-> Filled(IF f = "encrypt_gcm" THEN 12 ELSE 16, n),
                           source |-> None])
    /\ pc' = "io_called"
    /\ UNCHANGED response
    /\ UNCHANGED <<encapVars, calls, decapVars, frameVars>>

AeadRun ==
    /\ pc = "io_called"
    /\ Unwrap(request).function \in AeadFunctions
    /\ LET q == Unwrap(request)
       IN  response' = Some(CASE q.function = "encrypt_gcm" -> encrypt_gcm(q.key, q.data, q.nonce)
                              [] q.function = "decrypt_gcm" -> decrypt_gcm(q.key, q.data)
                              [] q.function = "encrypt_ctr" -> encrypt_ctr(q.key, q.data, q.nonce)
                              [] OTHER                      -> decrypt_ctr(q.key, q.data))
    /\ pc' = "io_returned"
    /\ UNCHANGED request
    /\ UNCHANGED <<encapVars, calls, decapVars, frameVars>>

\* decrypt_gcm(key, encrypt_gcm(key, msg)), as decrypt_command does with
\* the message encrypt_command stored
AeadDecryptOutput ==
    /\ pc = "io_returned"
    /\ Unwrap(request).function = "encrypt_gcm"
    /\ Unwrap(request).source = None
    /\ Unwrap(response).tag = "Ok"
    /\ request' = Some([function |-> "decrypt_gcm", key |-> Unwrap(request).key,
                        data |-> Unwrap(response).value,
                        nonce |-> Unwrap(request).nonce,
                        source |-> Some(Unwrap(request).data)])
    /\ response' = None
    /\ pc' = "io_called"
    /\ UNCHANGED <<encapVars, calls, decapVars, frameVars>>

NextAead ==
    \/ AeadCall
    \/ AeadRun
    \/ AeadDecryptOutput

SpecAead == InitIo /\ [][NextAead]_vars

(***************************************************************************)
(* SpecWtns: the witness parsers on wtns containers, well formed or not    *)
(***************************************************************************)
MaxWitness == 2

\* n as `width` little-endian bytes (n < 2^24)
LeBytes(n, width) ==
    [i \in 1..width |->
        CASE i = 1 -> n % 256
          [] i = 2 -> (n \div 256) % 256
          [] i = 3 -> (n \div 65536) % 256
          [] OTHER -> 0]

RECURSIVE Concat(_)
Concat(seqs) == IF seqs = <<>> THEN <<>> ELSE Head(seqs) \o Concat(Tail(seqs))

\* one section: type (u32), size (u64), payload
Section(type, payload) == LeBytes(type, 4) \o LeBytes(Len(payload), 8) \o payload

\* magic, version (u32), number of sections (u32), the sections
Container(magic, version, sections) ==
    magic \o LeBytes(version, 4) \o LeBytes(Len(sections), 4) \o Concat(sections)

\* encoded values: below the modulus, the modulus itself, above it
ElementValues == {1, P - 1, P, P + 1}

WtnsDescs ==
    {[n8 |-> n8, values |-> v, count |-> c, extra |-> e, layout |-> lay, head |-> h] :
        n8 \in {2, 32},
        v \in SeqsUpTo(ElementValues, MaxWitness) \ {<<>>},
        c \in 1..(MaxWitness + 1),
        e \in {0, 1},
        lay \in {"header_first", "data_first", "with_unknown"},
        h \in {"ok", "bad_magic", "bad_version"}}

WtnsBytes(d) ==
    LET header == Section(1, LeBytes(d.n8, 4) \o LeBytes(P, d.n8) \o LeBytes(d.count, 4))
        body == Section(2, Concat([i \in 1..Len(d.values) |-> LeBytes(d.values[i], d.n8)])
                             \o [i \in 1..d.extra |-> 7])
        unknown == Section(9, <<1, 2, 3>>)
    IN  Container(IF d.head = "bad_magic" THEN <<119, 116, 110, 120>> ELSE WTNS_MAGIC,
                  IF d.head = "bad_version" THEN 1 ELSE 2,
                  CASE d.layout = "header_first" -> <<header, body>>
                    [] d.layout = "data_first"   -> <<body, header>>
                    [] OTHER                     -> <<header, unknown, body>>)

WtnsFunctions == {"WitnessFile::from_file", "to_field_elements", "parse_witness"}

WtnsCall ==
    /\ pc = "io_idle"
    /\ \E f \in WtnsFunctions, d \in {x \in WtnsDescs : x.count <= Len(x.values) + 1} :
          request' = Some([function |-> f, desc |-> d, data |-> WtnsBytes(d)])
    /\ pc' = "io_called"
    /\ UNCHANGED response
    /\ UNCHANGED <<encapVars, calls, decapVars, frameVars>>

WtnsRun ==
    /\ pc = "io_called"
    /\ Unwrap(request).function \in WtnsFunctions
    /\ LET q == Unwrap(request)
       IN  response' = Some(CASE q.function = "WitnessFile::from_file" ->
                                     WitnessFile_from_file(q.data)
                              [] q.function = "to_field_elements" -> LoadWitness(q.data)
                              [] OTHER -> parse_witness(q.data))
    /\ pc' = "io_returned"
    /\ UNCHANGED request
    /\ UNCHANGED <<encapVars, calls, decapVars, frameVars>>

NextWtns ==
    \/ WtnsCall
    \/ WtnsRun

SpecWtns == InitIo /\ [][NextWtns]_vars

(***************************************************************************)
(* SpecWtnsCut: the witness parsers on wtns containers cut off after any   *)
(* number of bytes                                                         *)
(***************************************************************************)
CutDescs ==
    {[n8 |-> 2, values |-> <<1, P - 1>>, count |-> 2, extra |-> 0, layout |-> lay,
      head |-> "ok"] : lay \in {"header_first", "data_first", "with_unknown"}}

WtnsCallCut ==
    /\ pc = "io_idle"
    /\ \E f \in WtnsFunctions, d \in CutDescs :
          \E cut \in 0..Len(WtnsBytes(d)) :
              request' = Some([function |-> f, desc |-> d,
                               data |-> SubSeq(WtnsBytes(d), 1, cut)])
    /\ pc' = "io_called"
    /\ UNCHANGED response
    /\ UNCHANGED <<encapVars, calls, decapVars, frameVars>>

NextWtnsCut ==
    \/ WtnsCallCut
    \/ WtnsRun

SpecWtnsCut == InitIo /\ [][NextWtnsCut]_vars

(***************************************************************************)
(* SpecR1cs: the two r1cs parsers on containers whose sections come in any *)
(* order, are missing, or are repeated                                     *)
(***************************************************************************)
MaxSections == 3
MaxConstraints == 2

\* bytes of one coefficient in the files below
R1csFieldSize == 2
\* wires of the circuits in the files below: the constant, one public input,
\* one private input
R1csWires == 3

\* the k-th constraint of the files below: (k * z2) * (z2 + k) = z1
R1csConstraint(k) ==
    [a |-> << <<2, LeBytes(k, R1csFieldSize)>> >>,
     b |-> << <<2, LeBytes(1, R1csFieldSize)>>, <<0, LeBytes(k, R1csFieldSize)>> >>,
     c |-> << <<1, LeBytes(1, R1csFieldSize)>> >>]

LcBytes(factors) ==
    LeBytes(Len(factors), 4)
        \o Concat([i \in 1..Len(factors) |-> LeBytes(factors[i][1], 4) \o factors[i][2]])

ConstraintBytes(c) == LcBytes(c.a) \o LcBytes(c.b) \o LcBytes(c.c)

SectionKinds ==
    {[type |-> t, n |-> n] : t \in {"header", "constraints"}, n \in 1..MaxConstraints}
        \cup {[type |-> "wire2label", n |-> 0]}

SectionBytes(k) ==
    CASE k.type = "header" ->
             Section(1, LeBytes(R1csFieldSize, 4) \o LeBytes(P, R1csFieldSize)
                            \o LeBytes(R1csWires, 4) \o LeBytes(0, 4) \o LeBytes(1, 4)
                            \o LeBytes(1, 4) \o LeBytes(R1csWires, 8) \o LeBytes(k.n, 4))
      [] k.type = "constraints" ->
             Section(2, Concat([i \in 1..k.n |-> ConstraintBytes(R1csConstraint(i))]))
      [] OTHER ->
             Section(3, Concat([i \in 1..R1csWires |-> LeBytes(i - 1, 8)]))

R1csDescs ==
    {[layout |-> lay, head |-> h] :
        lay \in SeqsUpTo(SectionKinds, MaxSections),
        h \in {"ok", "bad_magic", "bad_version"}}

R1csBytes(d) ==
    Container(IF d.head = "bad_magic" THEN <<114, 49, 99, 120>> ELSE R1CS_MAGIC,
              IF d.head = "bad_version" THEN 2 ELSE 1,
              [i \in 1..Len(d.layout) |-> SectionBytes(d.layout[i])])

R1csFunctions == {"R1csFile::from_file", "parse_r1cs"}

R1csCall ==
    /\ pc = "io_idle"
    /\ \E f \in R1csFunctions, d \in R1csDescs :
          request' = Some([function |-> f, desc |-> d, data |-> R1csBytes(d)])
    /\ pc' = "io_called"
    /\ UNCHANGED response
    /\ UNCHANGED <<encapVars, calls, decapVars, frameVars>>

R1csRun ==
    /\ pc = "io_called"
    /\ Unwrap(request).function \in R1csFunctions
    /\ LET q == Unwrap(request)
       IN  response' = Some(IF q.function = "R1csFile::from_file"
                            THEN R1csFile_from_file(q.data)
                            ELSE parse_r1cs(q.data))
    /\ pc' = "io_returned"
    /\ UNCHANGED request
    /\ UNCHANGED <<encapVars, calls, decapVars, frameVars>>

NextR1cs ==
    \/ R1csCall
    \/ R1csRun

SpecR1cs == InitIo /\ [][NextR1cs]_vars

(***************************************************************************)
(* SpecInputs: the input mappers on JSON objects of up to MaxKeys members, *)
(* written in every order of their keys                                    *)
(***************************************************************************)
MaxKeys == 2

\* "a", "ab", "B"
KeyNames == {<<97>>, <<97, 98>>, <<66>>}

JsonLeaves ==
    {JNumber(5), JNumber(0 - 1), JString(<<"4", "2">>), JString(<<"-", "3">>), JBool(TRUE)}

JsonValues ==
    JsonLeaves
        \cup {JArray(<<l, JNumber(2)>>) : l \in JsonLeaves}
        \cup {JArray(<<JNumber(1), JArray(<<x, JNumber(7)>>)>>) :
                 x \in {JNumber(0 - 2), JNumber(3)}}
        \cup {JArray(<<JArray(<<JArray(<<JNumber(0 - 1)>>)>>), JNumber(4)>>)}

\* the members of an object, in the order of the text; keys are distinct
JsonTexts ==
    {m \in UNION {[1..n -> KeyNames \X JsonValues] : n \in 0..MaxKeys} :
        \A i, j \in 1..Len(m) : i # j => m[i][1] # m[j][1]}

InputFunctions == {"parse_circuit_inputs", "flatten_json"}

InputsCall ==
    /\ pc = "io_idle"
    /\ \E f \in InputFunctions, m \in JsonTexts :
          request' = Some([function |-> f, desc |-> m, data |-> JObject(m)])
    /\ pc' = "io_called"
    /\ UNCHANGED response
    /\ UNCHANGED <<encapVars, calls, decapVars, frameVars>>

InputsRun ==
    /\ pc = "io_called"
    /\ Unwrap(request).function \in InputFunctions
    /\ LET q == Unwrap(request)
       IN  response' = Some(IF q.function = "parse_circuit_inputs"
                            THEN parse_circuit_inputs(q.data)
                            ELSE flatten_json(q.data))
    /\ pc' = "io_returned"
    /\ UNCHANGED request
    /\ UNCHANGED <<encapVars, calls, decapVars, frameVars>>

NextInputs ==
    \/ InputsCall
    \/ InputsRun

SpecInputs == InitIo /\ [][NextInputs]_vars

(***************************************************************************)
(* SpecVerify: verify_ciphertext on ciphertexts and expected vectors of up *)
(* to MaxInputs elements                                                   *)
(***************************************************************************)
MaxInputs == 2

InputVectors == SeqsUpTo({0, 1, 5}, MaxInputs)

\* a ciphertext carrying the given instance vector
CiphertextWith(inputs) ==
    [encap_key |->
        [alpha_g1 |-> ScalarMul(g1_generator, 2),
         beta_g2  |-> ScalarMul(g2_generator, 3),
         delta_g2 |-> g2_generator,
         r_u_query_g1 |-> <<>>,
         r_v_query_g2 |-> <<>>,
         phi_delta_query_g1 |-> <<>>,
         h_query_g1 |-> <<>>],
     public_inputs |-> inputs]

\* the caller holds a ciphertext and passes a reference to it
VerifyCall ==
    /\ pc = "io_idle"
    /\ \E inputs \in InputVectors, expected \in InputVectors :
          /\ dciphertext' = Some(CiphertextWith(inputs))
          /\ request' = Some([function |-> "verify_ciphertext",
                              ciphertext |-> CiphertextWith(inputs),
                              expected |-> expected])
    /\ pc' = "io_called"
    /\ UNCHANGED response
    /\ UNCHANGED <<encapVars, calls, dcircuit, dcs, decap_result, frameVars>>

VerifyRun ==
    /\ pc = "io_called"
    /\ Unwrap(request).function = "verify_ciphertext"
    /\ response' = Some(IoOk(verify_ciphertext(Unwrap(dciphertext),
                                               Unwrap(request).expected)))
    /\ pc' = "io_returned"
    /\ UNCHANGED request
    /\ UNCHANGED <<encapVars, calls, decapVars, frameVars>>

NextVerify ==
    \/ VerifyCall
    \/ VerifyRun

SpecVerify == InitIo /\ [][NextVerify]_vars

(***************************************************************************)
(* SpecDecrypt: decrypt_command from its first step to its last, on        *)
(* combined files, circuit files and witness files, good and bad           *)
(***************************************************************************)
SerializePoints(points) ==
    LeBytes(Len(points), 8) \o [i \in 1..Len(points) |-> points[i].dlog]

\* Ciphertext::serialize_compressed, in the encoding DeserializeCiphertext reads
SerializeCiphertext(ct) ==
    <<ct.encap_key.alpha_g1.dlog, ct.encap_key.beta_g2.dlog, ct.encap_key.delta_g2.dlog>>
        \o SerializePoints(ct.encap_key.r_u_query_g1)
        \o SerializePoints(ct.encap_key.r_v_query_g2)
        \o SerializePoints(ct.encap_key.phi_delta_query_g1)
        \o SerializePoints(ct.encap_key.h_query_g1)
        \o LeBytes(Len(ct.public_inputs), 8) \o ct.public_inputs

\* what encrypt wrote for a one-byte message, and files damaged in the
\* ciphertext part, in the lengths, or cut short
DecryptCombinedFiles ==
    LET encrypted_message == encrypt_gcm(Filled(32, 9), <<7>>, Filled(12, 1)).value
    IN  {WriteCombined(SerializeCiphertext(CiphertextWith(a)), <<>>, FALSE, encrypted_message) :
            a \in {<<2>>, <<6>>}}
          \cup {WriteCombined(<<1, 2, 200>>, <<>>, FALSE, encrypted_message),
                <<0, 0, 0, 0, 9, 1>>,
                <<0, 0, 0>>}

\* the circuit z2 * (z2 + 1) = z1, and a file that is no r1cs container
DecryptCircuitFiles ==
    {R1csBytes([layout |-> <<[type |-> "header", n |-> 1], [type |-> "constraints", n |-> 1]>>,
                head |-> h]) : h \in {"ok", "bad_magic"}}

\* witness files for that circuit: satisfying, not satisfying, with an
\* element that is no canonical scalar, and no wtns container at all
DecryptWitnessFiles ==
    {WtnsBytes([n8 |-> FR_SERIALIZED_SIZE,
                values |-> [i \in 1..R1csWires |->
                               CASE i = 1 -> 1 [] i = 2 -> v[1] [] i = 3 -> v[2] [] OTHER -> 0],
                count |-> R1csWires, extra |-> 0, layout |-> "header_first", head |-> h]) :
        v \in {<<2, 1>>, <<6, 2>>, <<1, 1>>, <<P + 1, 1>>}, h \in {"ok", "bad_magic"}}

DecryptCall ==
    /\ pc = "decrypt_idle"
    /\ combined' \in DecryptCombinedFiles
    /\ \E c \in DecryptCircuitFiles, w \in DecryptWitnessFiles :
          request' = Some([function |-> "decrypt_command", circuit |-> c, witness |-> w])
    /\ pc' = "decrypt"
    /\ UNCHANGED <<written, frame, response>>
    /\ UNCHANGED <<encapVars, calls, decapVars>>

\* Step 2, before decap is called
DecryptLoad ==
    /\ pc = "decrypt_load"
    /\ LET loaded == LoadCircuitAndWitness(Unwrap(request).circuit, Unwrap(request).witness,
                                           Unwrap(frame).witness_ct_bytes)
       IN  IF loaded.tag = "Ok"
           THEN /\ dcircuit' = Unwrap(loaded.circuit)
                /\ dciphertext' = loaded.ciphertext
                /\ pc' = "decap"
           ELSE /\ pc' = IF loaded.tag = "Panic" THEN "decrypt_panic" ELSE "decrypt_failed"
                /\ UNCHANGED <<dcircuit, dciphertext>>
    /\ UNCHANGED <<dcs, decap_result>>
    /\ UNCHANGED <<encapVars, calls, frameVars, ioVars>>

\* decap has returned: the rest of the command
DecryptUnwrapWrite ==
    /\ pc = "decap_returned"
    /\ LET rest == UnwrapAndWrite(decap_result, Unwrap(frame).encrypted_message)
       IN  /\ response' = rest.output
           /\ pc' = rest.pc
    /\ UNCHANGED request
    /\ UNCHANGED <<encapVars, calls, decapVars, frameVars>>

InitDecrypt ==
    /\ pc = "decrypt_idle"
    /\ circuit = CHOOSE c \in EncapCircuits : TRUE
    /\ rng = <<>>
    /\ dcircuit = circuit
    /\ dciphertext = None
    /\ InitCommon

NextDecrypt ==
    \/ DecryptCall
    \/ DecryptParse
    \/ DecryptLoad
    \/ DecapSynthesize
    \/ DecapCheckSatisfied
    \/ DecapRecoverKey
    \/ DecryptUnwrapWrite

SpecDecrypt == InitDecrypt /\ [][NextDecrypt]_vars

(***************************************************************************)
(* SpecDet: encap called repeatedly, each call with its own RNG state      *)
(***************************************************************************)
MaxCalls == 2

DetCircuits ==
    {c \in EncapCircuits :
        /\ ~c.native
        /\ c.r1cs \in {R1csQuadratic, R1csProduct}
        /\ \A i \in DOMAIN c.witness : i > c.r1cs.n_pub => c.witness[i] = None}

CallEncap ==
    /\ pc = "idle"
    /\ Len(calls) < MaxCalls
    /\ circuit' \in DetCircuits
    /\ rng' \in SeededStreams
    /\ cs' = new_ref
    /\ public_inputs' = <<>>
    /\ toxic' = None
    /\ ciphertext' = None
    /\ key' = None
    /\ calls' = Append(calls, [circuit |-> circuit', rng |-> rng', outcome |-> None])
    /\ pc' = "encap"
    /\ UNCHANGED <<decapVars, frameVars, ioVars>>

\* Ok((ciphertext, key)), or the abort
EncapReturn ==
    /\ pc \in {"encap_ok", "encap_panic"}
    /\ calls' = [calls EXCEPT ![Len(calls)].outcome =
                    Some([status |-> pc, ciphertext |-> ciphertext, key |-> key])]
    /\ pc' = "idle"
    /\ UNCHANGED <<encapVars, decapVars, frameVars, ioVars>>

InitDet ==
    /\ pc = "idle"
    /\ circuit = CHOOSE c \in DetCircuits : TRUE
    /\ rng = <<>>
    /\ dcircuit = circuit
    /\ dciphertext = None
    /\ InitCommon

NextDet ==
    \/ CallEncap
    \/ EncapSynthesize
    \/ EncapSample
    \/ EncapBuildCrs
    \/ EncapDeriveKey
    \/ EncapReturn

SpecDet == InitDet /\ [][NextDet]_vars

(***************************************************************************)
(* Properties                                                              *)
(***************************************************************************)
DecapFinished == pc \in {"decap_returned", "decap_panic"}

\* the assignment vector z of a circuit whose wires are all assigned
WireValue(c, wire_id) == IF wire_id = 0 THEN 1 ELSE Unwrap(c.witness[wire_id])

FullAssignment(c) == \A i \in 1..(c.r1cs.n_wires - 1) : IsSome(c.witness[i])

InstanceOf(c) == [i \in 1..c.r1cs.n_pub |-> Unwrap(c.witness[i])]

RECURSIVE Dot(_, _, _)
\* <row, z> for one linear combination of the R1CS
Dot(c, factors, k) ==
    IF k > Len(factors) THEN 0
    ELSE FAdd(FMul(FromLeBytesModOrder(factors[k][2]), WireValue(c, factors[k][1])),
              Dot(c, factors, k + 1))

\* z satisfies every constraint <A_j, z> * <B_j, z> = <C_j, z> of the R1CS
SatisfiesR1cs(c) ==
    \A j \in 1..Len(c.r1cs.constraints) :
        FMul(Dot(c, c.r1cs.constraints[j].a, 1), Dot(c, c.r1cs.constraints[j].b, 1))
            = Dot(c, c.r1cs.constraints[j].c, 1)

\* decap got the ciphertext encap returned, and the instance encap had
SameInstance ==
    /\ dciphertext = ciphertext
    /\ FullAssignment(dcircuit)
    /\ InstanceOf(dcircuit) = Unwrap(ciphertext).public_inputs

\* C1: Encap/Decap correctness.  When decap is given the ciphertext encap
\* returned and a full assignment that satisfies the circuit, it returns
\* Ok(K_a) with K_a the key encap returned; it neither fails nor aborts.
C1_DecapRecoversKey ==
    (DecapFinished /\ SameInstance /\ SatisfiesR1cs(dcircuit))
        => decap_result = Ok(Unwrap(key))

\* C2: Witness soundness.  When decap is given a full assignment that
\* violates a constraint, it returns InvalidWitness and no key, and the key
\* recovery step is reached only after the satisfaction check has passed.
C2_InvalidWitnessRejected ==
    /\ (DecapFinished /\ FullAssignment(dcircuit) /\ ~SatisfiesR1cs(dcircuit))
          => decap_result = Err("InvalidWitness")
    /\ (pc \in {"decap_recover", "decap_panic"})
          => (FullAssignment(dcircuit) /\ SatisfiesR1cs(dcircuit))

C2_Witness ==
    /\ pc = "decap_returned"
    /\ FullAssignment(dcircuit)
    /\ ~SatisfiesR1cs(dcircuit)
    /\ Len(dcircuit.r1cs.constraints) = 2
    /\ decap_result = Err("InvalidWitness")

\* C3: Instance binding.  When the instance of the synthesized circuit
\* differs from ciphertext.public_inputs in a position or in length, decap
\* fails with PublicInputMismatch or InvalidWitness.
C3_InstanceBinding ==
    (/\ DecapFinished
     /\ FullAssignment(dcircuit)
     /\ InstanceOf(dcircuit) # Unwrap(dciphertext).public_inputs)
        => decap_result \in {Err("PublicInputMismatch"), Err("InvalidWitness")}

C8_DeltaNonZero ==
    /\ pc # "encap_panic"
    /\ IsSome(ciphertext) => Unwrap(ciphertext).encap_key.delta_g2 # G2(0)

\* the inverse of a non-zero scalar, by its defining equation
InverseOf(a) == CHOOSE b \in F : FMul(a, b) = 1

RECURSIVE InstanceAccumulator(_, _, _)
\* the exponent of sum over i = k..l of a_i * phi_i
InstanceAccumulator(ct, k, l) ==
    IF k > l THEN 0
    ELSE (ct.public_inputs[k] * ct.encap_key.phi_delta_query_g1[k + 1].dlog
            + InstanceAccumulator(ct, k + 1, l)) % P

\* C10: Key derivation.  The key encap returns is the zero-padded 32-byte
\* prefix of the compressed serialisation of s = e(alpha_g1, beta_g2) *
\* e(Pi, g2), where Pi = phi_0 + sum over i = 1..l of a_i * phi_i runs over
\* every public input of the ciphertext; the key has exactly 32 bytes.
C10_KeyDerivation ==
    IsSome(key) =>
        LET ct == Unwrap(ciphertext)
            l == Len(ct.public_inputs)
            Pi == (ct.encap_key.phi_delta_query_g1[1].dlog
                     + InstanceAccumulator(ct, 1, l)) % P
            s == GT((ct.encap_key.alpha_g1.dlog * ct.encap_key.beta_g2.dlog + Pi) % P)
            s_bytes == serialize_compressed(s)
        IN  /\ l < Len(ct.encap_key.phi_delta_query_g1)
            /\ Len(Unwrap(key)) = 32
            /\ \A i \in 1..32 : Unwrap(key)[i] = s_bytes[i]

C10_Witness ==
    /\ pc = "encap_ok"
    /\ Len(Unwrap(ciphertext).public_inputs) = 2
    /\ Unwrap(ciphertext).encap_key.phi_delta_query_g1[1] # G1(0)
    /\ Unwrap(ciphertext).encap_key.phi_delta_query_g1[2] # G1(0)
    /\ Unwrap(ciphertext).encap_key.phi_delta_query_g1[3] # G1(0)
    /\ Unwrap(key)[1] # 0

FrameParsed == pc \in {"decrypt_load", "decrypt_failed", "decrypt_panic"}

\* C5: Frame round-trip.  The frame encrypt_command writes for (w, extra,
\* c) is split by the reader into exactly w, extra (present iff the blob
\* was embedded, flag = 1) and c.
C5_FrameRoundTrip ==
    (FrameParsed /\ IsSome(written)) =>
        LET wr == Unwrap(written)
            f == Unwrap(frame)
        IN  /\ f.status = "ok"
            /\ f.witness_ct_bytes = wr.witness_ct_bytes
            /\ f.encrypted_message = wr.encrypted_message
            /\ f.flag = (IF wr.include_public_input THEN 1 ELSE 0)
            /\ f.public_input =
                  (IF wr.include_public_input THEN Some(wr.input_json) ELSE None)
            /\ combined[1] = f.flag

C5_Witness ==
    /\ pc = "decrypt_load"
    /\ IsSome(written)
    /\ Unwrap(written).include_public_input
    /\ Len(Unwrap(written).witness_ct_bytes) = 2
    /\ Len(Unwrap(written).encrypted_message) = 2
    /\ Unwrap(frame).public_input = Some(<<255>>)

\* C6: Invalid flag rejected.  A frame whose first byte is neither 0 nor 1
\* makes the reader fail; Step 2 (decap) is not reached with it.
C6_InvalidFlagRejected ==
    (FrameParsed /\ Len(combined) >= 1 /\ combined[1] \notin {0, 1})
        => (Unwrap(frame).status = "err" /\ pc = "decrypt_failed")

\* C7: Frame reader bounds.  On every buffer the reader returns an error or
\* takes only slices inside the buffer (no access aborts): a buffer shorter
\* than 5, a witness length beyond the bytes after the header, and, with
\* flag = 1, a missing public length or one beyond the remaining bytes are
\* errors; on success the header and the three parts fill the buffer.
C7_ReaderBounds ==
    FrameParsed =>
        LET f == Unwrap(frame)
            n == Len(combined)
            w_len == U32FromBeBytes(combined, 1)
            p_len == U32FromBeBytes(combined, 5 + w_len)
        IN  /\ f.status # "panic"
            /\ n < 5 => f.status = "err"
            /\ (n >= 5 /\ w_len > n - 5) => f.status = "err"
            /\ (n >= 5 /\ w_len <= n - 5 /\ combined[1] = 1 /\ n - 5 - w_len < 4)
                  => f.status = "err"
            /\ (n >= 5 /\ w_len <= n - 5 /\ combined[1] = 1 /\ n - 5 - w_len >= 4
                  /\ p_len > n - 9 - w_len)
                  => f.status = "err"
            /\ f.status = "ok" =>
                  n = 5 + Len(f.witness_ct_bytes)
                        + (IF IsSome(f.public_input)
                           THEN 4 + Len(Unwrap(f.public_input)) ELSE 0)
                        + Len(f.encrypted_message)

C7_Witness ==
    /\ pc = "decrypt_failed"
    /\ written = None
    /\ Len(combined) = MaxFile
    /\ combined[1] = 1
    /\ U32FromBeBytes(combined, 1) = 1
    /\ Unwrap(frame).error = "Invalid ciphertext: public input length mismatch"

EncapBuilt == pc \in {"encap_key", "encap_ok"}

\* the instance wires of the circuit given to encap are all assigned
InstanceAssigned(c) == \A i \in 1..c.r1cs.n_pub : IsSome(c.witness[i])

\* C11: Ciphertext public inputs.  For a circuit whose l instance wires are
\* all assigned, the ciphertext encap returns has public_inputs =
\* (z_1, ..., z_l), whether or not the private wires are assigned and
\* whatever the allocation order of the circuit.
C11_PublicInputs ==
    (EncapBuilt /\ InstanceAssigned(circuit)) =>
        Unwrap(ciphertext).public_inputs = InstanceOf(circuit)

\* the smallest power of two >= k
NextPowerOfTwo(k) ==
    CHOOSE s \in {1, 2, 4, 8, 16, 32} :
        /\ s >= k
        /\ \A t \in {1, 2, 4, 8, 16, 32} : t >= k => s <= t

\* C12: h_query.  After encap over a domain H, h_query has |H| - 1 entries
\* and entry k is [r^2 * x^k * t(x) / delta]_1, t(x) = x^|H| - 1.
C12_HQuery ==
    (EncapBuilt /\ IsSome(QapDomain(cs))) =>
        LET h == Unwrap(ciphertext).encap_key.h_query_g1
            t == Unwrap(toxic)
            size == Unwrap(QapDomain(cs)).size
            t_x == (FPow(t.x, size) + P - 1) % P
        IN  /\ Len(h) = size - 1
            /\ \A k \in 0..(size - 2) :
                  h[k + 1] = G1((t.r * t.r * FPow(t.x, k) * t_x * InverseOf(t.delta)) % P)

\* synthesis ran to its end: every wire allocated, every constraint added
SynthesisComplete ==
    /\ cs.num_instance_variables = circuit.r1cs.n_pub + 1
    /\ cs.num_instance_variables + cs.num_witness_variables = circuit.r1cs.n_wires
    /\ Len(cs.constraints) = Len(circuit.r1cs.constraints)

RECURSIVE MatrixEntry(_, _, _)
\* A[j][i] of the R1CS: the sum of the coefficients row j gives wire i
MatrixEntry(factors, i, k) ==
    IF k > Len(factors) THEN 0
    ELSE ((IF factors[k][1] = i THEN LeValue(factors[k][2], Len(factors[k][2])) ELSE 0)
            + MatrixEntry(factors, i, k + 1)) % P

\* an element of order `size` generating the domain
RootOfUnity(size) ==
    CHOOSE w \in 1..(P - 1) :
        /\ FPow(w, size) = 1
        /\ \A d \in 1..(size - 1) : FPow(w, d) # 1

RECURSIVE LagrangeProduct(_, _, _, _, _)
\* prod over k # j of (x - w^k) / (w^j - w^k)
LagrangeProduct(w, size, j, x, k) ==
    IF k >= size THEN 1
    ELSE IF k = j THEN LagrangeProduct(w, size, j, x, k + 1)
    ELSE (((x + P - FPow(w, k)) % P)
            * InverseOf((FPow(w, j) + P - FPow(w, k)) % P)
            * LagrangeProduct(w, size, j, x, k + 1)) % P

\* L_j(x), j = 0..size-1, by the definition of the Lagrange basis
LagrangeBasis(size, j, x) == LagrangeProduct(RootOfUnity(size), size, j, x, 0)

RECURSIVE SumOver(_, _, _)
\* sum of f[k] for k = from..to (mod P)
SumOver(f, from, to) ==
    IF from > to THEN 0 ELSE (f[from] + SumOver(f, from + 1, to)) % P

\* sum_j L_j(x) * M[j][i] over the rows of one matrix, L[j + 1] = L_j(x)
QapColumn(rows, i, L) ==
    SumOver([j \in 1..Len(rows) |-> (MatrixEntry(rows[j], i, 1) * L[j]) % P],
            1, Len(rows))

AssignmentSamples(m) == [1..m -> {0, 1, 5}]

\* C13: QAP evaluation.  evaluate_qap_polynomials_at_x returns three
\* vectors of length m; over the domain, U[i] = sum_{j<n} A[j][i] * L_j(x)
\* (V from B, W from C), and so sum_i z_i U[i] = sum_j L_j(x) <A_j, z> for
\* every assignment z.
C13_QapEvaluation ==
    (pc = "encap_key") =>
        LET x == Unwrap(toxic).x
            m == cs.num_instance_variables + cs.num_witness_variables
            qap == evaluate_qap_polynomials_at_x(cs, x)
            rows == circuit.r1cs.constraints
            n == Len(rows)
            size == NextPowerOfTwo(n + circuit.r1cs.n_pub + 1)
            L == [j \in 1..size |-> LagrangeBasis(size, j - 1, x)]
            A == [j \in 1..n |-> rows[j].a]
            B == [j \in 1..n |-> rows[j].b]
            C == [j \in 1..n |-> rows[j].c]
            Az == [j \in 1..n |-> [i \in 1..m |-> MatrixEntry(A[j], i - 1, 1)]]
        IN  /\ Len(qap.u_evals) = m
            /\ Len(qap.v_evals) = m
            /\ Len(qap.w_evals) = m
            /\ (SynthesisComplete /\ IsSome(QapDomain(cs))) =>
                  /\ \A i \in 1..m :
                        /\ qap.u_evals[i] = QapColumn(A, i - 1, L)
                        /\ qap.v_evals[i] = QapColumn(B, i - 1, L)
                        /\ qap.w_evals[i] = QapColumn(C, i - 1, L)
                  /\ \A z \in AssignmentSamples(m) :
                        SumOver([i \in 1..m |-> (z[i] * qap.u_evals[i]) % P], 1, m)
                          = SumOver([j \in 1..n |->
                                (L[j] * SumOver([i \in 1..m |-> (Az[j][i] * z[i]) % P],
                                                1, m)) % P],
                              1, n)

\* a system with a constraint, evaluated at a point outside the domain, with
\* a non-zero entry in each of U, V, W
C13_Witness ==
    /\ pc = "encap_key"
    /\ SynthesisComplete
    /\ IsSome(QapDomain(cs))
    /\ circuit.r1cs = R1csProduct
    /\ Unwrap(toxic).x = 2
    /\ LET qap == evaluate_qap_polynomials_at_x(cs, 2)
       IN  /\ \E i \in 1..Len(qap.u_evals) : qap.u_evals[i] # 0
           /\ \E i \in 1..Len(qap.v_evals) : qap.v_evals[i] # 0
           /\ \E i \in 1..Len(qap.w_evals) : qap.w_evals[i] # 0

\* C14 as stated: Domain size.  |H| is the smallest power of two
\* >= max(n, l + 1), n constraints and l public inputs.
C14_DomainSizeMax ==
    (pc = "encap_key" /\ SynthesisComplete /\ IsSome(QapDomain(cs))) =>
        LET n == Len(circuit.r1cs.constraints)
            l == circuit.r1cs.n_pub
        IN  Unwrap(QapDomain(cs)).size = NextPowerOfTwo(IF n > l + 1 THEN n ELSE l + 1)

\* C14, amended: |H| is the smallest power of two >= n + l + 1 (the
\* constraints plus the instance variables, constant wire counted), and its
\* elements are the |H|-th roots of unity.
C14_DomainSize ==
    (pc = "encap_key" /\ SynthesisComplete /\ IsSome(QapDomain(cs))) =>
        LET n == Len(circuit.r1cs.constraints)
            l == circuit.r1cs.n_pub
            H == Unwrap(QapDomain(cs))
        IN  /\ H.size = NextPowerOfTwo(n + l + 1)
            /\ FPow(H.group_gen, H.size) = 1
            /\ \A d \in 1..(H.size - 1) : FPow(H.group_gen, d) # 1

\* one constraint, one public input: max(n, l + 1) = 2 but n + l + 1 = 3
C14_Witness ==
    /\ pc = "encap_key"
    /\ SynthesisComplete
    /\ circuit.r1cs = R1csQuadratic
    /\ IsSome(QapDomain(cs))
    /\ Unwrap(QapDomain(cs)).size = 4

IoReturned == pc = "io_returned"

\* C15: AEAD round-trip.  For a 32-byte key K and any message msg (the
\* empty one included) decrypt_gcm(K, encrypt_gcm(K, msg)) = msg, and
\* encrypt_gcm's output is the 12-byte nonce followed by len(msg) + 16
\* bytes: len(msg) + 28 in all.
C15_AeadRoundTrip ==
    IoReturned =>
        LET q == Unwrap(request)
            a == Unwrap(response)
        IN  /\ (q.function = "encrypt_gcm" /\ Len(q.key) = 32) =>
                  /\ a.tag = "Ok"
                  /\ Len(a.value) = Len(q.data) + 28
                  /\ SubSeq(a.value, 1, 12) = q.nonce
            /\ (q.function = "decrypt_gcm" /\ IsSome(q.source)) =>
                  a = IoOk(Unwrap(q.source))

C15_Witness ==
    /\ IoReturned
    /\ Unwrap(request).function = "decrypt_gcm"
    /\ Unwrap(request).source = Some(<<>>)
    /\ Len(Unwrap(request).data) = 28
    /\ Unwrap(response) = IoOk(<<>>)

\* C16: AEAD key length.  Each of encrypt_gcm, decrypt_gcm, encrypt_ctr,
\* decrypt_ctr returns the key-length error, and nothing else is done, for
\* every key shorter than 32 bytes.
C16_ShortKeyRejected ==
    (IoReturned /\ Unwrap(request).function \in AeadFunctions
       /\ Len(Unwrap(request).key) < 32)
        => Unwrap(response) = IoErr("Key must be 32 bytes (256 bits)")

C16_Witness ==
    /\ IoReturned
    /\ Unwrap(request).function = "decrypt_ctr"
    /\ Len(Unwrap(request).key) = 31
    /\ Len(Unwrap(request).data) = 16
    /\ Unwrap(response).tag = "Err"

\* the data section of the container holds exactly n8 * count bytes
WtnsSizeMatches(d) == Len(d.values) * d.n8 + d.extra = d.n8 * d.count

\* C17: Witness size check.  Both witness parsers fail with a size-mismatch
\* error when the data section's length differs from n8 * count; on success
\* the result has count elements, element i decoded from bytes
\* [i*n8, (i+1)*n8) of the data section.
C17_WitnessSizeCheck ==
    (IoReturned /\ Unwrap(request).function \in {"WitnessFile::from_file", "parse_witness"}
       /\ Unwrap(request).desc.head = "ok") =>
        LET q == Unwrap(request)
            d == q.desc
            a == Unwrap(response)
        IN  /\ ~WtnsSizeMatches(d) => a.tag = "Err"
            /\ (a.tag = "Ok" /\ q.function = "WitnessFile::from_file") =>
                  /\ a.value.n_witness = d.count
                  /\ a.value.assignments =
                        [i \in 1..d.count |-> LeBytes(d.values[i], d.n8)]
            /\ (a.tag = "Ok" /\ q.function = "parse_witness") =>
                  a.value = [i \in 1..d.count |-> d.values[i] % P]

\* C20: Scalar reduction.  A scalar read from input bytes is the
\* little-endian integer reduced modulo r: an encoded value >= r is accepted
\* and mapped to its residue, and the CLI and JS witness decoders give the
\* same field elements for the same bytes.
C20_ScalarReduction ==
    (IoReturned /\ Unwrap(request).function \in {"to_field_elements", "parse_witness"}
       /\ Unwrap(request).desc.head = "ok"
       /\ Unwrap(request).desc.layout # "data_first"
       /\ Unwrap(request).desc.n8 = FR_SERIALIZED_SIZE
       /\ WtnsSizeMatches(Unwrap(request).desc)) =>
        LET d == Unwrap(request).desc
        IN  Unwrap(response) = IoOk([i \in 1..d.count |-> d.values[i] % P])

(***************************************************************************)
(* The r1cs parsers                                                        *)
(***************************************************************************)
R1csReturned == IoReturned /\ Unwrap(request).function \in R1csFunctions

\* the sections of one type in a layout
SectionsOfType(layout, type) == {i \in 1..Len(layout) : layout[i].type = type}

\* C18: parsing an r1cs container that holds two sections of the same type
\* (two headers, or two constraint sections) fails with an error; the parser
\* never silently picks one of them.
C18_DuplicateSectionRejected ==
    R1csReturned =>
        LET d == Unwrap(request).desc
        IN  (/\ d.head = "ok"
             /\ \/ Cardinality(SectionsOfType(d.layout, "header")) >= 2
                \/ Cardinality(SectionsOfType(d.layout, "constraints")) >= 2)
                => Unwrap(response).tag = "Err"

\* one header, one constraints section of the header's n constraints, and
\* any other sections, in any order
R1csWellFormed(d) ==
    /\ d.head = "ok"
    /\ Cardinality(SectionsOfType(d.layout, "header")) = 1
    /\ Cardinality(SectionsOfType(d.layout, "constraints")) = 1
    /\ \A i \in SectionsOfType(d.layout, "header") :
           \A j \in SectionsOfType(d.layout, "constraints") : d.layout[i].n = d.layout[j].n

\* C19: R1CS parsing returns an error and no partial result whenever the
\* magic is not "r1cs", the version is not 1, the header section (type 1) is
\* absent, or the constraints section (type 2) is absent; when it succeeds
\* the number of parsed constraints equals the header's n, wherever the
\* sections sit in the file, and a file with one header and its constraints
\* section is parsed to exactly those constraints in every section order.
C19_FormatRejection ==
    R1csReturned =>
        LET d == Unwrap(request).desc
            r == Unwrap(response)
        IN  /\ (\/ d.head # "ok"
                \/ SectionsOfType(d.layout, "header") = {}
                \/ SectionsOfType(d.layout, "constraints") = {})
                   => r = IoErr(r.error) /\ r.error # ""
            /\ r.tag \in {"Ok", "Err"}
            /\ r.tag = "Ok" => Len(r.value.constraints) = r.value.n_constraints
            /\ R1csWellFormed(d) =>
                   /\ r.tag = "Ok"
                   /\ \A i \in SectionsOfType(d.layout, "header") :
                          /\ r.value.n_constraints = d.layout[i].n
                          /\ r.value.constraints =
                                 [k \in 1..d.layout[i].n |-> R1csConstraint(k)]

\* a file whose constraints section comes before its header, with another
\* section between them, was parsed to MaxConstraints constraints
C19_Witness ==
    /\ R1csReturned
    /\ R1csWellFormed(Unwrap(request).desc)
    /\ Len(Unwrap(request).desc.layout) = 3
    /\ Unwrap(request).desc.layout[1].type = "constraints"
    /\ Unwrap(request).desc.layout[3].type = "header"
    /\ Unwrap(response).tag = "Ok"
    /\ Len(Unwrap(response).value.constraints) = MaxConstraints

(***************************************************************************)
(* The input mappers                                                       *)
(***************************************************************************)
InputsReturned == IoReturned /\ Unwrap(request).function \in InputFunctions

RECURSIVE JsonLeavesOf(_)
RECURSIVE JsonLeavesFrom(_, _)
\* the leaves of a value, depth first and left to right
JsonLeavesOf(val) ==
    IF val.kind = "Array" THEN JsonLeavesFrom(val.items, 1) ELSE <<val>>
JsonLeavesFrom(elems, k) ==
    IF k > Len(elems) THEN <<>> ELSE JsonLeavesOf(elems[k]) \o JsonLeavesFrom(elems, k + 1)

ContainsNegative(val) ==
    \E i \in 1..Len(JsonLeavesOf(val)) :
        JsonLeavesOf(val)[i].kind = "Number" /\ JsonLeavesOf(val)[i].n < 0

\* C21: the input mapper returns an error for every input map that contains
\* a negative integer literal at any nesting depth; a negative integer is
\* never converted to a field element.
C21_NegativeRejected ==
    InputsReturned =>
        ((\E i \in 1..Len(Unwrap(request).desc) :
              ContainsNegative(Unwrap(request).desc[i][2]))
            => Unwrap(response).tag = "Err")

\* the members of a text in ascending order of their keys
AscendingMembers(m) ==
    CHOOSE o \in [1..Len(m) -> 1..Len(m)] :
        /\ \A i, j \in 1..Len(m) : i < j => LexLess(m[o[i]][1], m[o[j]][1])

RECURSIVE LeavesInKeyOrder(_, _, _)
LeavesInKeyOrder(m, o, k) ==
    IF k > Len(m) THEN <<>>
    ELSE JsonLeavesOf(m[o[k]][2]) \o LeavesInKeyOrder(m, o, k + 1)

\* the scalar a supported leaf stands for
LeafScalar(leaf) ==
    IF leaf.kind = "String" THEN Unwrap(ParseU64(leaf.s)) % P ELSE leaf.n % P

LeafSupported(leaf) ==
    \/ leaf.kind = "Number"
    \/ leaf.kind = "String" /\ IsSome(ParseU64(leaf.s))

\* C22: without a symbol table, parse_circuit_inputs returns the
\* concatenation, over the top-level keys in ascending lexicographic order,
\* of the depth-first left-to-right flattening of each key's value (an error
\* when a leaf is not a number); so two JSON texts that differ only in the
\* order of their top-level keys give the same vector.
C22_SortedKeyFlattening ==
    (InputsReturned /\ Unwrap(request).function = "parse_circuit_inputs") =>
        LET m == Unwrap(request).desc
            r == Unwrap(response)
            leaves == LeavesInKeyOrder(m, AscendingMembers(m), 1)
        IN  /\ r.tag = "Ok" <=> \A i \in 1..Len(leaves) : LeafSupported(leaves[i])
            /\ r.tag = "Ok" =>
                   /\ Len(r.value) = Len(leaves)
                   /\ \A i \in 1..Len(leaves) :
                          leaves[i].n >= 0 => r.value[i] = LeafScalar(leaves[i])
            /\ \A o \in [1..Len(m) -> 1..Len(m)] :
                   (\A i, j \in 1..Len(m) : i # j => o[i] # o[j])
                       => parse_circuit_inputs(JObject([i \in 1..Len(m) |-> m[o[i]]])) = r

\* a text whose keys are written in descending order, one of them holding a
\* nested array, was flattened to four elements
C22_Witness ==
    /\ InputsReturned
    /\ Unwrap(request).function = "parse_circuit_inputs"
    /\ Len(Unwrap(request).desc) = 2
    /\ LexLess(Unwrap(request).desc[2][1], Unwrap(request).desc[1][1])
    /\ \E i \in 1..2 : \E k \in 1..Len(Unwrap(request).desc[i][2].items) :
           Unwrap(request).desc[i][2].items[k].kind = "Array"
    /\ \A i \in 1..2 : ~ContainsNegative(Unwrap(request).desc[i][2])
    /\ Unwrap(response).tag = "Ok"
    /\ Len(Unwrap(response).value) = 4

(***************************************************************************)
(* verify_ciphertext                                                       *)
(***************************************************************************)
VerifyReturned == IoReturned /\ Unwrap(request).function = "verify_ciphertext"

\* C23: verify_ciphertext(ct, expected) returns true if and only if
\* ct.public_inputs and expected have the same length and are equal element
\* by element; it never fails and leaves ct unchanged.
C23_VerifyCiphertext ==
    VerifyReturned =>
        LET ct == Unwrap(request).ciphertext
            expected == Unwrap(request).expected
            r == Unwrap(response)
        IN  /\ r.tag = "Ok"
            /\ r.value \in BOOLEAN
            /\ r.value <=>
                   /\ Len(ct.public_inputs) = Len(expected)
                   /\ \A i \in 1..Len(expected) : ct.public_inputs[i] = expected[i]
            /\ dciphertext = Some(ct)

\* true was returned for a ciphertext and an expected vector of MaxInputs
\* elements
C23_Witness ==
    /\ VerifyReturned
    /\ Len(Unwrap(request).expected) = MaxInputs
    /\ Unwrap(response).value = TRUE

(***************************************************************************)
(* The toxic scalars of encap                                              *)
(***************************************************************************)
\* C24: when encap returns, on success or on error, the variables that held
\* alpha, beta, delta, r and x have been overwritten with zero.
C24_ToxicDestroyed ==
    pc = "encap_ok" =>
        \/ toxic = None
        \/ \A name \in DOMAIN Unwrap(toxic) : Unwrap(toxic)[name] = 0

(***************************************************************************)
(* encap on a circuit without its private values                           *)
(***************************************************************************)
\* C25: when encap runs on an R1CS-backed circuit whose instance wires are
\* assigned and whose private wires are unassigned, the constraint system it
\* evaluates still has all m = n_wires wires and all n constraints of the
\* R1CS, so sigma has one query entry per wire.
C25_MissingWitnessTolerated ==
    (/\ EncapBuilt
     /\ ~circuit.native
     /\ InstanceAssigned(circuit)
     /\ \A i \in (circuit.r1cs.n_pub + 1)..(circuit.r1cs.n_wires - 1) :
            ~IsSome(circuit.witness[i]))
        => /\ SynthesisComplete
           /\ Len(Unwrap(ciphertext).encap_key.r_u_query_g1) = circuit.r1cs.n_wires
           /\ Len(Unwrap(ciphertext).encap_key.r_v_query_g2) = circuit.r1cs.n_wires
           /\ Len(Unwrap(ciphertext).encap_key.phi_delta_query_g1) = circuit.r1cs.n_wires

(***************************************************************************)
(* encap when the evaluation domain is unavailable                         *)
(***************************************************************************)
\* C26: if the evaluation domain of the required size cannot be constructed,
\* the QAP engine fails and encap returns an error; encap never returns a
\* (sigma, K) computed from substitute all-zero evaluations.
C26_DomainFailureIsError ==
    pc = "encap_ok" => IsSome(QapDomain(cs))

(***************************************************************************)
(* The constraints of an R1CS-backed circuit                               *)
(***************************************************************************)
\* the factors of one parsed linear combination as a matrix row: the
\* coefficient as a field element, the wire id as the column
ParsedRow(factors) ==
    [k \in 1..Len(factors) |->
        <<LeValue(factors[k][2], Len(factors[k][2])) % P, factors[k][1]>>]

\* C27: for an R1CS-backed circuit with a full assignment, after
\* generate_constraints the constraint system has exactly n constraints in
\* file order, and row j of A, B and C holds exactly the (wire id,
\* coefficient) factors of the j-th parsed constraint with wire id i in
\* matrix column i; no factor is dropped or altered, in particular not a
\* factor whose wire id is >= n_wires.
C27_VerbatimCopy ==
    (/\ pc # "encap"
     /\ ~circuit.native
     /\ \A i \in 1..(circuit.r1cs.n_wires - 1) : IsSome(circuit.witness[i]))
        => /\ Len(cs.constraints) = Len(circuit.r1cs.constraints)
           /\ \A j \in 1..Len(circuit.r1cs.constraints) :
                  /\ to_matrices(cs)[1][j] = ParsedRow(circuit.r1cs.constraints[j].a)
                  /\ to_matrices(cs)[2][j] = ParsedRow(circuit.r1cs.constraints[j].b)
                  /\ to_matrices(cs)[3][j] = ParsedRow(circuit.r1cs.constraints[j].c)

(***************************************************************************)
(* decrypt_command                                                         *)
(***************************************************************************)
\* how far the command has come
DecryptRank(at) ==
    CASE at = "decrypt_idle"   -> 0
      [] at = "decrypt"        -> 1
      [] at = "decrypt_load"   -> 2
      [] at = "decap"          -> 3
      [] at = "decap_check"    -> 4
      [] at = "decap_recover"  -> 5
      [] at = "decap_returned" -> 6
      [] OTHER                 -> 7

FrameParsedOk == frame # None /\ Unwrap(frame).status = "ok"

CircuitAndWitnessLoaded ==
    LoadCircuitAndWitness(Unwrap(request).circuit, Unwrap(request).witness,
                          Unwrap(frame).witness_ct_bytes).tag = "Ok"

\* what holds in every state of a run of the command
DecryptNoPartialSuccess ==
    /\ DecryptRank(pc) >= 2 /\ pc # "decrypt_failed" /\ pc # "decrypt_panic" => FrameParsedOk
    /\ pc \in {"decap", "decap_check", "decap_recover", "decap_returned", "decap_panic",
               "decrypt_done"}
           => FrameParsedOk /\ CircuitAndWitnessLoaded /\ dciphertext # None
    /\ ~FrameParsedOk => dciphertext = None /\ decap_result = None
    /\ (FrameParsedOk /\ ~CircuitAndWitnessLoaded) => dciphertext = None /\ decap_result = None
    /\ response # None => pc = "decrypt_done"
    /\ pc = "decrypt_done" =>
           /\ decap_result.tag = "Ok"
           /\ decrypt_gcm(Unwrap(decap_result.key), Unwrap(frame).encrypted_message)
                  = IoOk(Unwrap(response))

\* C28: decrypt_command performs its steps in the order parse frame, load
\* circuit and witness, decap, AEAD unwrap, write output, each at most once;
\* the output file is written only after decap has returned a key and the
\* AEAD tag has verified under that key, and on any failure nothing is
\* written to the output path.
C28_NoPartialSuccess ==
    /\ []DecryptNoPartialSuccess
    /\ [][/\ DecryptRank(pc') > DecryptRank(pc)
          /\ response' # response =>
                 /\ pc = "decap_returned"
                 /\ decap_result.tag = "Ok"
                 /\ pc' = "decrypt_done"]_vars

\* the frame was parsed, the circuit and the witness were loaded, decap
\* refused the witness, and the command ended without an output file
C28_Witness ==
    /\ pc = "decrypt_failed"
    /\ FrameParsedOk
    /\ CircuitAndWitnessLoaded
    /\ decap_result = Err("InvalidWitness")
    /\ response = None

(***************************************************************************)
(* parse_witness on any byte string                                        *)
(***************************************************************************)
ParseWitnessReturned == IoReturned /\ Unwrap(request).function = "parse_witness"

\* C29: parse_witness (zkenc-js) terminates on every byte string: the loop
\* over the data section makes progress on every iteration, including when
\* the field width n8 it uses is 0 because the header section is absent,
\* comes after the data section, or declares width 0.
C29_ParseWitnessTerminates ==
    ParseWitnessReturned => Unwrap(response).tag # "Hang"

\* C30: parse_witness (zkenc-js) never reads outside its input: for every
\* byte string, including ones truncated inside the version, section count,
\* a section header or a section body, every index it reads is below the
\* buffer length, and a truncated or over-long section length gives an Err
\* rather than an out-of-bounds access.
C30_ParseWitnessInBounds ==
    ParseWitnessReturned =>
        /\ Unwrap(response).tag # "Panic"
        /\ Len(Unwrap(request).data) < Len(WtnsBytes(Unwrap(request).desc))
               => Unwrap(response).tag \in {"Err", "Hang"}

====
